---- MODULE Spec2Model ----
(***************************************************************************)
(* A model of the versioned record store of the task manager: the tasks    *)
(* and categories tables, the TaskModel and CategoryModel methods that     *)
(* issue one SQL statement each, and the HTTP handlers that compose them.  *)
(* Every SQL statement is one atomic step of the backend; a handler that   *)
(* issues two statements (Get, then Update) takes two steps, and any other *)
(* client may run between them.                                            *)
(***************************************************************************)
EXTENDS Integers, Sequences, FiniteSets, TLC

VARIABLES
    tasks,              \* table tasks: id -> row, for the ids that have a row
    tasks_id_seq,       \* last value of the sequence behind tasks.id
    tasks_user_id_seq,  \* last value of the sequence behind tasks.user_id
    categories,         \* table categories: id -> row
    categories_id_seq,  \* last value of the sequence behind categories.id
    now,                \* the backend's clock, read by DEFAULT NOW()
    task,               \* per client: the *Task it holds (NoTask: nil)
    category,           \* per client: the *Category it holds (NoCategory: nil)
    inflight,           \* per client: the store call the backend has not answered
    pc,                 \* per client: position inside a handler
    deleted,            \* history: ids whose row a Delete has removed, per table
    wins,               \* history: successful updates per row and starting version
    walk,               \* per client: the pages of the list it is paging through
    driver,             \* how the database driver of the build sends a time
    last                \* the most recent call: its arguments and what it returned

vars == <<tasks, tasks_id_seq, tasks_user_id_seq, categories, categories_id_seq,
          now, task, category, inflight, pc, deleted, wins, walk, driver, last>>

-----------------------------------------------------------------------------
(* Bounds of the model.                                                    *)

Clients == {"c1", "c2"}
\* at most this many rows are ever inserted into one table
MaxRows == 2
\* at most this many rows are ever inserted while two clients race
MaxRaceRows == 1
\* a row is updated until its version reaches this value
MaxVersion == 3
\* the clock ticks this many times
MaxTicks == 1

-----------------------------------------------------------------------------
(* CustomTime: an instant, kept as the number of whole days since          *)
(* 0001-01-01 (the zero time.Time), the second of the day and the          *)
(* nanosecond of the second, in UTC.                                       *)

ZeroTime == [days |-> 0, secs |-> 0, nsec |-> 0]

SecondsPerDay == 86400

\* an instant on a whole second
Date(days, secs) == [days |-> days, secs |-> secs, nsec |-> 0]

\* an instant with a fraction of a second
DateNano(days, secs, nsec) == [days |-> days, secs |-> secs, nsec |-> nsec]

\* time.Time.IsZero looks at the instant, whatever the location
IsZero(ct) == ct.days = 0 /\ ct.secs = 0 /\ ct.nsec = 0

Before(ct, t) ==
    \/ ct.days < t.days
    \/ ct.days = t.days /\ ct.secs < t.secs
    \/ ct.days = t.days /\ ct.secs = t.secs /\ ct.nsec < t.nsec

\* an After that also holds of the instant t itself
AfterOrAt(ct, t) ==
    \/ ct.days > t.days
    \/ ct.days = t.days /\ ct.secs > t.secs
    \/ ct.days = t.days /\ ct.secs = t.secs /\ ct.nsec >= t.nsec

After(ct, t) ==
    \/ ct.days > t.days
    \/ ct.days = t.days /\ ct.secs > t.secs
    \/ ct.days = t.days /\ ct.secs = t.secs /\ ct.nsec > t.nsec

\* time.Date(2023, 10, 7, 0, 0, 0, 0, time.UTC) and time.Date(2060, 1, 1, ...)
DueDateAfter == Date(738799, 0)
DueDateBefore == Date(752034, 0)

\* 2024-01-01 00:00:00 and 2024-01-02 00:00:00
Jan1 == Date(738885, 0)
Jan2 == Date(738886, 0)

\* the backend clock starts here and advances one second per tick
ClockStart == Date(738900, 0)

-----------------------------------------------------------------------------
(* Errors.                                                                 *)

Nil == "nil"
ErrRecordNotFound == "record not found"
ErrEditConflict == "edit conflict"

-----------------------------------------------------------------------------
(* The Task struct and the tasks table.                                    *)

NoTask == [nil |-> TRUE]

\* var task Task: every field has its zero value
ZeroTask ==
    [ID |-> 0, CreatedAt |-> ZeroTime, Title |-> "", Description |-> "",
     DueDate |-> ZeroTime, Priority |-> "", Status |-> "", Category |-> "",
     UserID |-> 0, Version |-> 0]

\* Scan of one row of tasks into a Task
ScanTask(row) ==
    [ID |-> row.id, CreatedAt |-> row.created_at, Title |-> row.title,
     Description |-> row.description, DueDate |-> row.due_date,
     Priority |-> row.priority, Status |-> row.status,
     Category |-> row.category, UserID |-> row.user_id,
     Version |-> row.version]

\* f with the pair k -> v added or replaced
Put(f, k, v) == [x \in DOMAIN f \cup {k} |-> IF x = k THEN v ELSE f[x]]

\* f without the key k
Drop(f, k) == [x \in DOMAIN f \ {k} |-> f[x]]

EmptyTable == [x \in {} |-> x]

\* a value stored in a column of type timestamp(0) with time zone.  The
\* backend keeps a timestamp as microseconds since 2000-01-01 (day 730119)
\* and rounds it to the second, half away from zero.  The driver is chosen
\* where the pool is opened, outside the files at hand: one that sends the
\* time as text with nine digits has the backend round to the nearest
\* microsecond first (half to even), one that sends the binary form cuts
\* the time to microseconds itself.
RoundToSecond(ct) ==
    LET q == ct.nsec \div 1000
        r == ct.nsec % 1000
        usec == IF driver = "binary" THEN q
                ELSE IF r > 500 \/ (r = 500 /\ q % 2 = 1) THEN q + 1 ELSE q
        next == IF ct.secs + 1 < SecondsPerDay
                THEN Date(ct.days, ct.secs + 1)
                ELSE Date(ct.days + 1, 0)
        up == IF ct.days >= 730119 THEN usec >= 500000 ELSE usec > 500000
    IN  IF up THEN next ELSE Date(ct.days, ct.secs)

\* the row the INSERT statement stores: title, description, priority, status,
\* category and due_date come from the arguments; id and user_id from their
\* bigserial sequences, created_at from DEFAULT NOW(), version from DEFAULT 1
InsertRow(t, id, user_id, created_at) ==
    [id |-> id, created_at |-> created_at, title |-> t.Title,
     description |-> t.Description, due_date |-> RoundToSecond(t.DueDate),
     priority |-> t.Priority, status |-> t.Status, category |-> t.Category,
     user_id |-> user_id, version |-> 1]

\* an Insert whose id is the lowest id that no row of the table has
TaskModelInsertLowestFreeId(tbl, id_seq, user_id_seq, clock, t) ==
    LET free == CHOOSE id \in 1..(id_seq + 1) :
                    /\ id \notin DOMAIN tbl
                    /\ \A lower \in 1..(id - 1) : lower \in DOMAIN tbl
        row == InsertRow(t, free, user_id_seq + 1, clock)
    IN  [tasks |-> Put(tbl, row.id, row),
         id_seq |-> id_seq + 1,
         user_id_seq |-> user_id_seq + 1,
         task |-> [t EXCEPT !.ID = row.id, !.CreatedAt = row.created_at,
                            !.UserID = row.user_id, !.Version = row.version],
         err |-> Nil]

\* TaskModel.Insert: the INSERT ... RETURNING id, created_at, user_id, version
\* statement and the Scan of the returned values into the passed task
TaskModelInsert(tbl, id_seq, user_id_seq, clock, t) ==
    LET row == InsertRow(t, id_seq + 1, user_id_seq + 1, clock)
    IN  [tasks |-> Put(tbl, row.id, row),
         id_seq |-> id_seq + 1,
         user_id_seq |-> user_id_seq + 1,
         task |-> [t EXCEPT !.ID = row.id, !.CreatedAt = row.created_at,
                            !.UserID = row.user_id, !.Version = row.version],
         err |-> Nil]

\* Get without the check of id < 1: every id is looked up in the table
TaskModelGetQueriesAnyId(tbl, id) ==
    IF id \notin DOMAIN tbl
    THEN [task |-> NoTask, err |-> ErrRecordNotFound, queried |-> TRUE]
    ELSE [task |-> ScanTask(tbl[id]), err |-> Nil, queried |-> TRUE]

\* TaskModel.Get: id < 1 returns ErrRecordNotFound without a query; no row
\* (sql.ErrNoRows) returns ErrRecordNotFound; otherwise the scanned row
TaskModelGet(tbl, id) ==
    IF id < 1
    THEN [task |-> NoTask, err |-> ErrRecordNotFound, queried |-> FALSE]
    ELSE IF id \notin DOMAIN tbl
         THEN [task |-> NoTask, err |-> ErrRecordNotFound, queried |-> TRUE]
         ELSE [task |-> ScanTask(tbl[id]), err |-> Nil, queried |-> TRUE]

\* the WHERE clause without its version condition
UpdateMatchesIdOnly(tbl, t) == t.ID \in DOMAIN tbl

\* WHERE id = $8 AND version = $9 of the UPDATE statement
UpdateMatches(tbl, t) ==
    /\ t.ID \in DOMAIN tbl
    /\ tbl[t.ID].version = t.Version

\* the SET clause without version = version + 1
UpdateRowKeepsVersion(row, t) ==
    [row EXCEPT !.title = t.Title, !.description = t.Description,
                !.priority = t.Priority, !.status = t.Status,
                !.category = t.Category, !.due_date = RoundToSecond(t.DueDate),
                !.user_id = t.UserID]

\* a SET clause that also writes the created_at the entity carries
UpdateRowSetsCreatedAt(row, t) ==
    [row EXCEPT !.title = t.Title, !.description = t.Description,
                !.priority = t.Priority, !.status = t.Status,
                !.category = t.Category, !.due_date = RoundToSecond(t.DueDate),
                !.user_id = t.UserID, !.version = row.version + 1,
                !.created_at = t.CreatedAt]

\* SET title = $1, ..., user_id = $7, version = version + 1
UpdateRow(row, t) ==
    [row EXCEPT !.title = t.Title, !.description = t.Description,
                !.priority = t.Priority, !.status = t.Status,
                !.category = t.Category, !.due_date = RoundToSecond(t.DueDate),
                !.user_id = t.UserID, !.version = row.version + 1]

\* Update that does not turn sql.ErrNoRows into an error
TaskModelUpdateSwallowsNoRows(tbl, t) ==
    IF UpdateMatches(tbl, t)
    THEN LET row == UpdateRow(tbl[t.ID], t)
         IN  [tasks |-> Put(tbl, t.ID, row),
              task |-> [t EXCEPT !.Version = row.version],
              err |-> Nil]
    ELSE [tasks |-> tbl, task |-> t, err |-> Nil]

\* Update that reports a vanished id as ErrRecordNotFound
TaskModelUpdateNotFound(tbl, t) ==
    IF UpdateMatches(tbl, t)
    THEN LET row == UpdateRow(tbl[t.ID], t)
         IN  [tasks |-> Put(tbl, t.ID, row),
              task |-> [t EXCEPT !.Version = row.version],
              err |-> Nil]
    ELSE [tasks |-> tbl, task |-> t,
          err |-> IF t.ID \in DOMAIN tbl THEN ErrEditConflict ELSE ErrRecordNotFound]

\* TaskModel.Update: the conditional UPDATE ... RETURNING version; no row
\* returned (sql.ErrNoRows) is ErrEditConflict and Scan leaves the task alone
TaskModelUpdate(tbl, t) ==
    IF UpdateMatches(tbl, t)
    THEN LET row == UpdateRow(tbl[t.ID], t)
         IN  [tasks |-> Put(tbl, t.ID, row),
              task |-> [t EXCEPT !.Version = row.version],
              err |-> Nil]
    ELSE [tasks |-> tbl, task |-> t, err |-> ErrEditConflict]

\* Delete that does not look at the number of rows affected
TaskModelDeleteIgnoresRowsAffected(tbl, id) ==
    IF id < 1
    THEN [tasks |-> tbl, err |-> ErrRecordNotFound, queried |-> FALSE]
    ELSE [tasks |-> Drop(tbl, id), err |-> Nil, queried |-> TRUE]

\* TaskModel.Delete: id < 1 returns ErrRecordNotFound without a query;
\* DELETE FROM tasks WHERE id = $1 with zero rows affected returns it too
TaskModelDelete(tbl, id) ==
    IF id < 1
    THEN [tasks |-> tbl, err |-> ErrRecordNotFound, queried |-> FALSE]
    ELSE IF id \notin DOMAIN tbl
         THEN [tasks |-> tbl, err |-> ErrRecordNotFound, queried |-> TRUE]
         ELSE [tasks |-> Drop(tbl, id), err |-> Nil, queried |-> TRUE]

-----------------------------------------------------------------------------
(* Text columns.  The texts of the model are the ones listed here; the     *)
(* backend's text search and collation are tabulated over them.            *)

\* to_tsvector('simple', s) and plainto_tsquery('simple', s): the lower-cased
\* words of s ('simple' has no stop words and no stemming)
Lexemes(s) ==
    CASE s = "" -> {}
      [] s = "a" -> {"a"}
      [] s = "A" -> {"a"}
      [] s = "b" -> {"b"}
      [] s = "a b" -> {"a", "b"}
      [] s = "b a" -> {"a", "b"}
      [] OTHER -> {s}

\* position of s in the collation order of the backend
Collate(s) ==
    CASE s = "" -> 0
      [] s = "a" -> 1
      [] s = "a b" -> 2
      [] s = "b" -> 3
      [] s = "d" -> 4
      [] s = "e" -> 5
      [] s = "high" -> 6
      [] s = "home" -> 7
      [] s = "low" -> 8
      [] s = "todo" -> 9
      [] s = "work" -> 10

\* WHERE (to_tsvector('simple', title) @@ plainto_tsquery('simple', $1) OR $1 = '')
\* a plain query is the conjunction of its lexemes; one without lexemes matches nothing
TitleMatches(title, filter) ==
    \/ /\ Lexemes(filter) # {}
       /\ Lexemes(filter) \subseteq Lexemes(title)
    \/ filter = ""

-----------------------------------------------------------------------------
(* Filters and Metadata (pagination and sort policy).                      *)

\* input.Filters.SortSafelist of listTasksHandler
TaskSortSafelist ==
    {"id", "title", "priority", "category", "-id", "-title", "-priority", "-category"}

\* input.Filters.SortSafelist of listCategoriesHandler
CategorySortSafelist == {"id", "name", "-id", "-name"}

\* strings.HasPrefix(s, "-") over the sort tokens
HasMinusPrefix(s) ==
    s \in {"-id", "-title", "-priority", "-category", "-name", "-due_date"}

\* strings.TrimPrefix(s, "-") over the sort tokens
TrimMinusPrefix(s) ==
    CASE s = "-id" -> "id"
      [] s = "-title" -> "title"
      [] s = "-priority" -> "priority"
      [] s = "-category" -> "category"
      [] s = "-name" -> "name"
      [] s = "-due_date" -> "due_date"
      [] OTHER -> s

\* Filters.sortColumn: the sort token without its leading "-", for a token of
\* the safelist
sortColumn(f) ==
    IF f.Sort \in f.SortSafelist THEN TrimMinusPrefix(f.Sort) ELSE "panic"

\* Filters.sortDirection
sortDirection(f) == IF HasMinusPrefix(f.Sort) THEN "DESC" ELSE "ASC"

\* Filters.limit and Filters.offset
limit(f) == f.PageSize
offset(f) == (f.Page - 1) * f.PageSize

ZeroMetadata ==
    [CurrentPage |-> 0, PageSize |-> 0, FirstPage |-> 0, LastPage |-> 0,
     TotalRecords |-> 0]

\* calculateMetadata: the empty Metadata when there are no records, otherwise
\* LastPage is totalRecords / pageSize rounded up
calculateMetadata(totalRecords, page, pageSize) ==
    IF totalRecords = 0
    THEN ZeroMetadata
    ELSE [CurrentPage |-> page, PageSize |-> pageSize, FirstPage |-> 1,
          LastPage |-> (totalRecords + pageSize - 1) \div pageSize,
          TotalRecords |-> totalRecords]

-----------------------------------------------------------------------------
(* TaskModel.GetAll.                                                       *)

\* the value ORDER BY compares for a row of tasks: a number for id and for the
\* text columns (their collation position), the instant for due_date
TaskSortKey(row, column) ==
    CASE column = "id" -> row.id
      [] column = "title" -> Collate(row.title)
      [] column = "priority" -> Collate(row.priority)
      [] column = "category" -> Collate(row.category)
      [] column = "due_date" -> row.due_date

\* the order of the backend on the values of a column
SortKeyLess(ka, kb, column) ==
    IF column = "due_date" THEN Before(ka, kb) ELSE ka < kb

\* ORDER BY %s %s, id DESC
TaskOrderedBeforeIdDesc(a, b, column, direction) ==
    LET ka == TaskSortKey(a, column)
        kb == TaskSortKey(b, column)
    IN  \/ direction = "ASC" /\ SortKeyLess(ka, kb, column)
        \/ direction = "DESC" /\ SortKeyLess(kb, ka, column)
        \/ ka = kb /\ a.id > b.id

\* ORDER BY %s %s, id ASC: a comes before b
TaskOrderedBefore(a, b, column, direction) ==
    LET ka == TaskSortKey(a, column)
        kb == TaskSortKey(b, column)
    IN  \/ direction = "ASC" /\ SortKeyLess(ka, kb, column)
        \/ direction = "DESC" /\ SortKeyLess(kb, ka, column)
        \/ ka = kb /\ a.id < b.id

\* the rows of the set S in ORDER BY order
RECURSIVE TaskOrderBy(_, _, _)
TaskOrderBy(S, column, direction) ==
    IF S = {}
    THEN <<>>
    ELSE LET first == CHOOSE r \in S :
                        \A o \in S \ {r} : TaskOrderedBefore(r, o, column, direction)
         IN  <<first>> \o TaskOrderBy(S \ {first}, column, direction)

\* LIMIT $2 without the OFFSET
LimitWithoutOffset(rows, lim, off) ==
    SubSeq(rows, 1, IF lim < Len(rows) THEN lim ELSE Len(rows))

\* LIMIT $2 OFFSET $3 of a sequence of rows
LimitOffset(rows, lim, off) ==
    SubSeq(rows, off + 1, IF off + lim < Len(rows) THEN off + lim ELSE Len(rows))

\* the result set of the query of TaskModel.GetAll: one statement evaluates the
\* filter, count(*) OVER () over every row that passes it, the order and the window
TaskQuery(tbl, title, f) ==
    LET matching == {tbl[id] : id \in {i \in DOMAIN tbl : TitleMatches(tbl[i].title, title)}}
        ordered == TaskOrderBy(matching, sortColumn(f), sortDirection(f))
        window == LimitOffset(ordered, limit(f), offset(f))
    IN  [i \in 1..Len(window) |-> [count |-> Cardinality(matching), row |-> window[i]]]

\* the loop over rows.Next(): totalRecords starts at 0 and is overwritten by the
\* count column of every row scanned
RECURSIVE ScanTotalRecords(_, _)
ScanTotalRecords(resultset, totalRecords) ==
    IF resultset = <<>>
    THEN totalRecords
    ELSE ScanTotalRecords(Tail(resultset), Head(resultset).count)

\* TaskModel.GetAll
TaskModelGetAll(tbl, title, f) ==
    LET resultset == TaskQuery(tbl, title, f)
        totalRecords == ScanTotalRecords(resultset, 0)
    IN  [tasks |-> [i \in 1..Len(resultset) |-> ScanTask(resultset[i].row)],
         metadata |-> calculateMetadata(totalRecords, f.Page, f.PageSize),
         err |-> Nil,
         \* what fmt.Sprintf writes into ORDER BY %s %s of the query text
         query |-> [column |-> sortColumn(f), direction |-> sortDirection(f)]]

-----------------------------------------------------------------------------
(* The Category struct, the categories table and CategoryModel.            *)

NoCategory == [nil |-> TRUE]

\* Scan of one row of categories into a Category
ScanCategory(row) ==
    [ID |-> row.id, CreatedAt |-> row.created_at, Name |-> row.name,
     Description |-> row.description]

\* CategoryModel.Insert: INSERT INTO categories (name, description) ...
\* RETURNING id, created_at, scanned into the passed category
CategoryModelInsert(tbl, id_seq, clock, c) ==
    LET row == [id |-> id_seq + 1, created_at |-> clock, name |-> c.Name,
                description |-> c.Description]
    IN  [categories |-> Put(tbl, row.id, row),
         id_seq |-> id_seq + 1,
         category |-> [c EXCEPT !.ID = row.id, !.CreatedAt = row.created_at],
         err |-> Nil]

\* CategoryModel.Get
CategoryModelGet(tbl, id) ==
    IF id < 1
    THEN [category |-> NoCategory, err |-> ErrRecordNotFound, queried |-> FALSE]
    ELSE IF id \notin DOMAIN tbl
         THEN [category |-> NoCategory, err |-> ErrRecordNotFound, queried |-> TRUE]
         ELSE [category |-> ScanCategory(tbl[id]), err |-> Nil, queried |-> TRUE]

\* an UPDATE of categories whose SET clause leaves out the name
CategoryModelUpdateKeepsName(tbl, c) ==
    IF c.ID \in DOMAIN tbl
    THEN [categories |-> Put(tbl, c.ID, [tbl[c.ID] EXCEPT !.description = c.Description]),
          err |-> Nil]
    ELSE [categories |-> tbl, err |-> Nil]

\* an Update that reports an UPDATE of no row as ErrRecordNotFound
CategoryModelUpdateChecksRows(tbl, c) ==
    IF c.ID \in DOMAIN tbl
    THEN [categories |-> Put(tbl, c.ID, [tbl[c.ID] EXCEPT !.name = c.Name,
                                                          !.description = c.Description]),
          err |-> Nil]
    ELSE [categories |-> tbl, err |-> ErrRecordNotFound]

\* CategoryModel.Update: UPDATE categories SET name = $1, description = $2
\* WHERE id = $3; the number of rows affected is not looked at
CategoryModelUpdate(tbl, c) ==
    IF c.ID \in DOMAIN tbl
    THEN [categories |-> Put(tbl, c.ID, [tbl[c.ID] EXCEPT !.name = c.Name,
                                                          !.description = c.Description]),
          err |-> Nil]
    ELSE [categories |-> tbl, err |-> Nil]

\* CategoryModel.Delete
CategoryModelDelete(tbl, id) ==
    IF id < 1
    THEN [categories |-> tbl, err |-> ErrRecordNotFound, queried |-> FALSE]
    ELSE IF id \notin DOMAIN tbl
         THEN [categories |-> tbl, err |-> ErrRecordNotFound, queried |-> TRUE]
         ELSE [categories |-> Drop(tbl, id), err |-> Nil, queried |-> TRUE]

\* the value ORDER BY compares for a row of categories
CategorySortKey(row, column) ==
    CASE column = "id" -> row.id
      [] column = "name" -> Collate(row.name)

\* ORDER BY %s %s, id ASC over categories: a comes before b
CategoryOrderedBefore(a, b, column, direction) ==
    LET ka == CategorySortKey(a, column)
        kb == CategorySortKey(b, column)
    IN  \/ direction = "ASC" /\ ka < kb
        \/ direction = "DESC" /\ ka > kb
        \/ ka = kb /\ a.id < b.id

\* the rows of the set S of categories in ORDER BY order
RECURSIVE CategoryOrderBy(_, _, _)
CategoryOrderBy(S, column, direction) ==
    IF S = {}
    THEN <<>>
    ELSE LET first == CHOOSE r \in S :
                        \A o \in S \ {r} : CategoryOrderedBefore(r, o, column, direction)
         IN  <<first>> \o CategoryOrderBy(S \ {first}, column, direction)

\* the result set of the query of CategoryModel.GetAll: every row is counted
\* by count(*) OVER (), there is no filter
CategoryQuery(tbl, f) ==
    LET all == {tbl[id] : id \in DOMAIN tbl}
        ordered == CategoryOrderBy(all, sortColumn(f), sortDirection(f))
        window == LimitOffset(ordered, limit(f), offset(f))
    IN  [i \in 1..Len(window) |-> [count |-> Cardinality(all), row |-> window[i]]]

\* CategoryModel.GetAll
CategoryModelGetAll(tbl, f) ==
    LET resultset == CategoryQuery(tbl, f)
        totalRecords == ScanTotalRecords(resultset, 0)
    IN  [categories |-> [i \in 1..Len(resultset) |-> ScanCategory(resultset[i].row)],
         metadata |-> calculateMetadata(totalRecords, f.Page, f.PageSize),
         err |-> Nil,
         query |-> [column |-> sortColumn(f), direction |-> sortDirection(f)]]

-----------------------------------------------------------------------------
(* Validation.                                                             *)

\* Validator.Check: records the message under the key when the condition is
\* false and the key has no message yet
Check(errors, ok, key, message) ==
    IF ~ok /\ key \notin DOMAIN errors THEN Put(errors, key, message) ELSE errors

\* validator.New(): no errors
NoErrors == [x \in {} |-> x]

\* Validator.Valid
Valid(errors) == DOMAIN errors = {}

\* len(s) of a text of the model, in bytes
StrLen(s) == Len(s)

\* a Check that is skipped once any field has a message
CheckWhileValid(errors, ok, key, message) ==
    IF Valid(errors) THEN Check(errors, ok, key, message) ELSE errors

\* a ValidateTask that stops at the first failure
ValidateTaskStopsAtFirstFailure(t) ==
    LET e1 == Check(NoErrors, t.Title # "", "title", "must be provided")
        e2 == CheckWhileValid(e1, StrLen(t.Title) <= 500, "title", "must not be more than 500 bytes long")
        e3 == CheckWhileValid(e2, t.Description # "", "description", "must be provided")
        e4 == CheckWhileValid(e3, StrLen(t.Description) <= 1000, "description", "must not be more than 1000 bytes long")
        e5 == CheckWhileValid(e4, ~IsZero(t.DueDate), "due_date", "must be provided")
        e6 == CheckWhileValid(e5, Before(t.DueDate, DueDateBefore), "due_date", "must be before 2060")
        e7 == CheckWhileValid(e6, After(t.DueDate, DueDateAfter), "due_date", "must be after 2023-10-07")
        e8 == CheckWhileValid(e7, t.Priority # "", "priority", "must be provided")
        e9 == CheckWhileValid(e8, t.Status # "", "status", "must be provided")
    IN  CheckWhileValid(e9, t.Category # "", "category", "must be provided")

ValidateTask(t) ==
    LET e1 == Check(NoErrors, t.Title # "", "title", "must be provided")
        e2 == Check(e1, StrLen(t.Title) <= 500, "title", "must not be more than 500 bytes long")
        e3 == Check(e2, t.Description # "", "description", "must be provided")
        e4 == Check(e3, StrLen(t.Description) <= 1000, "description", "must not be more than 1000 bytes long")
        e5 == Check(e4, ~IsZero(t.DueDate), "due_date", "must be provided")
        e6 == Check(e5, Before(t.DueDate, DueDateBefore), "due_date", "must be before 2060")
        e7 == Check(e6, After(t.DueDate, DueDateAfter), "due_date", "must be after 2023-10-07")
        e8 == Check(e7, t.Priority # "", "priority", "must be provided")
        e9 == Check(e8, t.Status # "", "status", "must be provided")
    IN  Check(e9, t.Category # "", "category", "must be provided")

ValidateCategory(c) ==
    LET e1 == Check(NoErrors, c.Name # "", "name", "must be provided")
        e2 == Check(e1, StrLen(c.Name) <= 100, "name", "must not be more than 100 bytes long")
        e3 == Check(e2, c.Description # "", "description", "must be provided")
    IN  Check(e3, StrLen(c.Description) <= 500, "description", "must not be more than 500 bytes long")

\* ValidateFilters: page in 1..10,000,000, page size in 1..100, sort a token of
\* the safelist; the failures are recorded in the validator it is handed
MaxPage == 10000000
MaxPageSize == 100

ValidateFilters(errors, f) ==
    LET e1 == Check(errors, f.Page > 0, "page", "must be greater than zero")
        e2 == Check(e1, f.Page <= MaxPage, "page", "must be a maximum of 10 million")
        e3 == Check(e2, f.PageSize > 0, "page_size", "must be greater than zero")
        e4 == Check(e3, f.PageSize <= MaxPageSize, "page_size", "must be a maximum of 100")
    IN  Check(e4, f.Sort \in f.SortSafelist, "sort", "invalid sort value")

-----------------------------------------------------------------------------
(* Inputs of the model.                                                    *)

\* the Task structs a caller passes to Insert (the store assigns the rest)
TaskDrafts ==
    {[ZeroTask EXCEPT !.Title = ti, !.Description = "d", !.DueDate = Jan1,
                      !.Priority = "high", !.Status = "todo",
                      !.Category = "work", !.UserID = 7] : ti \in {"a", "b"}}

\* the ids a caller asks for: below 1, assigned, and not assigned yet
IdArgs == 0..MaxRows

\* ids below 1
LowIds == {-5, 0}

\* a field of a PATCH body: {} when the key is absent (a nil pointer),
\* {v} when it is present with the value v
Absent == {}
Deref(p) == CHOOSE v \in p : TRUE

EmptyPatch ==
    [Title |-> Absent, Description |-> Absent, DueDate |-> Absent,
     Priority |-> Absent, Status |-> Absent, Category |-> Absent]

\* the changes a caller makes to the task it holds before it calls Update
Patches ==
    {EmptyPatch,
     [EmptyPatch EXCEPT !.Title = {"b"}]}

\* the assignments "if input.X != nil { task.X = *input.X }" of updateTaskHandler
ApplyPatch(t, input) ==
    [t EXCEPT
       !.Title = IF input.Title # Absent THEN Deref(input.Title) ELSE @,
       !.Description = IF input.Description # Absent THEN Deref(input.Description) ELSE @,
       !.Priority = IF input.Priority # Absent THEN Deref(input.Priority) ELSE @,
       !.Status = IF input.Status # Absent THEN Deref(input.Status) ELSE @,
       !.Category = IF input.Category # Absent THEN Deref(input.Category) ELSE @,
       !.DueDate = IF input.DueDate # Absent THEN Deref(input.DueDate) ELSE @]

\* the title filters and the Filters a caller passes to TaskModel.GetAll
TitleFilters == {"", "a", "A"}
Pages == 1..2
PageSizes == 1..2
TaskFilters ==
    {[Page |-> p, PageSize |-> ps, Sort |-> so, SortSafelist |-> TaskSortSafelist] :
        p \in Pages, ps \in PageSizes, so \in TaskSortSafelist}

\* the Filters listTasksHandler builds from a request without a query string
DefaultTaskFilters ==
    [Page |-> 1, PageSize |-> 20, Sort |-> "id", SortSafelist |-> TaskSortSafelist]

\* the Filters of a request for the categories without a query string
DefaultCategoryFilters ==
    [Page |-> 1, PageSize |-> 20, Sort |-> "id", SortSafelist |-> CategorySortSafelist]

\* the Category structs a caller passes to Insert
CategoryDrafts ==
    {[ID |-> 0, CreatedAt |-> ZeroTime, Name |-> "home", Description |-> "e"],
     [ID |-> 0, CreatedAt |-> ZeroTime, Name |-> "work", Description |-> "e"]}

-----------------------------------------------------------------------------
(* The initial state: empty tables, sequences that have handed out nothing.*)

NoCall == [op |-> "none"]
\* the client is not paging through a list
NoWalk == [op |-> "none"]

Init ==
    /\ tasks = EmptyTable
    /\ tasks_id_seq = 0
    /\ tasks_user_id_seq = 0
    /\ categories = EmptyTable
    /\ categories_id_seq = 0
    /\ now = ClockStart
    /\ task = [c \in Clients |-> NoTask]
    /\ category = [c \in Clients |-> NoCategory]
    /\ inflight = [c \in Clients |-> NoCall]
    /\ pc = [c \in Clients |-> "idle"]
    /\ deleted = [tasks |-> {}, categories |-> {}]
    /\ wins = [id \in 1..MaxRows |-> [v \in 1..MaxVersion |-> 0]]
    /\ walk = [c \in Clients |-> NoWalk]
    /\ driver \in {"text", "binary"}
    /\ last = NoCall

-----------------------------------------------------------------------------
(* Calls of the store by its clients.  A client that holds a task and has  *)
(* not issued its statement yet is a call in flight.                       *)

\* the backend clock advances by one second
Tick ==
    /\ now.secs < ClockStart.secs + MaxTicks
    /\ now' = [now EXCEPT !.secs = @ + 1]
    /\ UNCHANGED <<driver, walk, category, inflight, tasks, tasks_id_seq, tasks_user_id_seq, categories,
                   categories_id_seq, task, pc, deleted, wins, last>>

\* c calls TaskModel.Insert(t)
TaskInsert(c, t) ==
    /\ pc[c] = "idle"
    /\ LET r == TaskModelInsert(tasks, tasks_id_seq, tasks_user_id_seq, now, t)
       IN  /\ tasks' = r.tasks
           /\ tasks_id_seq' = r.id_seq
           /\ tasks_user_id_seq' = r.user_id_seq
           /\ task' = [task EXCEPT ![c] = r.task]
           /\ last' = [op |-> "Insert", c |-> c, arg |-> t, task |-> r.task,
                       err |-> r.err]
    /\ UNCHANGED <<driver, walk, category, inflight, categories, categories_id_seq, now, pc, deleted, wins>>

\* c calls TaskModel.Get(id)
TaskGet(c, id) ==
    /\ pc[c] = "idle"
    /\ LET r == TaskModelGet(tasks, id)
       IN  /\ task' = [task EXCEPT ![c] = r.task]
           /\ last' = [op |-> "Get", c |-> c, id |-> id, task |-> r.task,
                       err |-> r.err, queried |-> r.queried]
    /\ UNCHANGED <<driver, walk, category, inflight, tasks, tasks_id_seq, tasks_user_id_seq, categories,
                   categories_id_seq, now, pc, deleted, wins>>

\* the history of successful updates: one more for the row and the version
\* the call carried
CountWin(w, t, err) ==
    IF err = Nil THEN [w EXCEPT ![t.ID][t.Version] = @ + 1] ELSE w

\* c calls TaskModel.Update on the task it holds, changed by the patch
TaskUpdate(c, input) ==
    /\ pc[c] = "idle"
    /\ task[c] # NoTask
    /\ LET t == ApplyPatch(task[c], input)
           r == TaskModelUpdate(tasks, t)
       IN  /\ r.err = Nil => r.task.Version <= MaxVersion
           /\ tasks' = r.tasks
           /\ task' = [task EXCEPT ![c] = r.task]
           /\ wins' = CountWin(wins, t, r.err)
           /\ last' = [op |-> "Update", c |-> c, arg |-> t, task |-> r.task,
                       err |-> r.err]
    /\ UNCHANGED <<driver, walk, category, inflight, tasks_id_seq, tasks_user_id_seq, categories,
                   categories_id_seq, now, pc, deleted>>

\* c calls TaskModel.Delete(id)
TaskDelete(c, id) ==
    /\ pc[c] = "idle"
    /\ LET r == TaskModelDelete(tasks, id)
       IN  /\ tasks' = r.tasks
           /\ deleted' = IF r.err = Nil
                         THEN [deleted EXCEPT !.tasks = @ \cup {id}]
                         ELSE deleted
           /\ last' = [op |-> "Delete", c |-> c, id |-> id, err |-> r.err,
                       queried |-> r.queried]
    /\ UNCHANGED <<driver, walk, category, inflight, tasks_id_seq, tasks_user_id_seq, categories,
                   categories_id_seq, now, task, pc, wins>>

\* c calls TaskModel.GetAll(title, f)
TaskGetAll(c, title, f) ==
    /\ pc[c] = "idle"
    /\ LET r == TaskModelGetAll(tasks, title, f)
       IN  last' = [op |-> "GetAll", c |-> c, title |-> title, filters |-> f,
                    tasks |-> r.tasks, metadata |-> r.metadata, err |-> r.err]
    /\ UNCHANGED <<driver, walk, category, inflight, tasks, tasks_id_seq, tasks_user_id_seq, categories,
                   categories_id_seq, now, task, pc, deleted, wins>>

\* the Category structs a caller passes to CategoryModel.Update
CategoryUpdates ==
    {[ID |-> id, CreatedAt |-> ZeroTime, Name |-> "work", Description |-> "d"] :
        id \in 1..MaxRows}

\* c calls CategoryModel.Insert(d)
CategoryInsert(c, d) ==
    /\ pc[c] = "idle"
    /\ LET r == CategoryModelInsert(categories, categories_id_seq, now, d)
       IN  /\ categories' = r.categories
           /\ categories_id_seq' = r.id_seq
           /\ last' = [op |-> "CategoryInsert", c |-> c, arg |-> d,
                       category |-> r.category, err |-> r.err]
    /\ UNCHANGED <<driver, walk, category, inflight, tasks, tasks_id_seq, tasks_user_id_seq, now, task, pc,
                   deleted, wins>>

\* c calls CategoryModel.Get(id)
CategoryGet(c, id) ==
    /\ pc[c] = "idle"
    /\ LET r == CategoryModelGet(categories, id)
       IN  last' = [op |-> "CategoryGet", c |-> c, id |-> id,
                    category |-> r.category, err |-> r.err, queried |-> r.queried]
    /\ UNCHANGED <<driver, walk, category, inflight, tasks, tasks_id_seq, tasks_user_id_seq, categories,
                   categories_id_seq, now, task, pc, deleted, wins>>

\* c calls CategoryModel.Update(u)
CategoryUpdate(c, u) ==
    /\ pc[c] = "idle"
    /\ LET r == CategoryModelUpdate(categories, u)
       IN  /\ categories' = r.categories
           /\ last' = [op |-> "CategoryUpdate", c |-> c, arg |-> u, err |-> r.err]
    /\ UNCHANGED <<driver, walk, category, inflight, tasks, tasks_id_seq, tasks_user_id_seq, categories_id_seq,
                   now, task, pc, deleted, wins>>

\* c calls CategoryModel.Delete(id)
CategoryDelete(c, id) ==
    /\ pc[c] = "idle"
    /\ LET r == CategoryModelDelete(categories, id)
       IN  /\ categories' = r.categories
           /\ deleted' = IF r.err = Nil
                         THEN [deleted EXCEPT !.categories = @ \cup {id}]
                         ELSE deleted
           /\ last' = [op |-> "CategoryDelete", c |-> c, id |-> id,
                       err |-> r.err, queried |-> r.queried]
    /\ UNCHANGED <<driver, walk, category, inflight, tasks, tasks_id_seq, tasks_user_id_seq, categories_id_seq,
                   now, task, pc, wins>>

\* c calls CategoryModel.GetAll(f)
CategoryGetAll(c, f) ==
    /\ pc[c] = "idle"
    /\ LET r == CategoryModelGetAll(categories, f)
       IN  last' = [op |-> "CategoryGetAll", c |-> c, filters |-> f,
                    categories |-> r.categories, metadata |-> r.metadata,
                    err |-> r.err]
    /\ UNCHANGED <<driver, walk, tasks, tasks_id_seq, tasks_user_id_seq, categories,
                   categories_id_seq, now, task, category, inflight, pc,
                   deleted, wins>>

\* c calls TaskModel.Update on the task it holds after it has set the
\* CreatedAt of that task to created_at
TaskUpdateCarrying(c, created_at) ==
    /\ pc[c] = "idle"
    /\ task[c] # NoTask
    /\ LET t == [task[c] EXCEPT !.CreatedAt = created_at]
           r == TaskModelUpdate(tasks, t)
       IN  /\ r.err = Nil => r.task.Version <= MaxVersion
           /\ tasks' = r.tasks
           /\ task' = [task EXCEPT ![c] = r.task]
           /\ wins' = CountWin(wins, t, r.err)
           /\ last' = [op |-> "Update", c |-> c, arg |-> t, task |-> r.task,
                       err |-> r.err]
    /\ UNCHANGED <<driver, walk, tasks_id_seq, tasks_user_id_seq, categories,
                   categories_id_seq, now, category, inflight, pc, deleted>>

-----------------------------------------------------------------------------
(* The tasks store under concurrent clients: every call is one statement,  *)
(* and the backend serializes the statements of the clients in any order.  *)

Next ==
    \/ \E c \in Clients, t \in TaskDrafts :
         tasks_id_seq < MaxRaceRows /\ TaskInsert(c, t)
    \/ \E c \in Clients, id \in IdArgs : TaskGet(c, id)
    \/ \E c \in Clients, input \in Patches : TaskUpdate(c, input)
    \/ \E c \in Clients, id \in IdArgs : TaskDelete(c, id)
    \/ \E c \in Clients : TaskGetAll(c, "", DefaultTaskFilters)

Spec == Init /\ [][Next]_vars

-----------------------------------------------------------------------------
(* Both stores under one client that inserts, reads and deletes rows of    *)
(* both tables with every id.  (TaskModel.Update after a Delete is part of *)
(* the specification above.)                                               *)

Caller == "c1"

\* the contents of the rows do not matter to what is checked here: one draft
\* per table
OneTaskDraft == CHOOSE t \in TaskDrafts : t.Title = "a"
OneCategoryDraft == CHOOSE d \in CategoryDrafts : d.Name = "home"

NextStores ==
    \/ tasks_id_seq < MaxRows /\ TaskInsert(Caller, OneTaskDraft)
    \/ \E id \in IdArgs \cup LowIds : TaskGet(Caller, id)
    \/ \E id \in IdArgs \cup LowIds : TaskDelete(Caller, id)
    \/ categories_id_seq < MaxRows /\ CategoryInsert(Caller, OneCategoryDraft)
    \/ \E id \in IdArgs \cup LowIds : CategoryGet(Caller, id)
    \/ \E u \in CategoryUpdates : CategoryUpdate(Caller, u)
    \/ \E id \in IdArgs \cup LowIds : CategoryDelete(Caller, id)

SpecStores == Init /\ [][NextStores]_vars

-----------------------------------------------------------------------------
(* Every call of both stores by one client, with updates whose entity      *)
(* carries a created_at of the caller's choice.                            *)

NextWriteOnce ==
    \/ tasks_id_seq < MaxRaceRows /\ TaskInsert(Caller, OneTaskDraft)
    \/ \E id \in 1..MaxRaceRows : TaskGet(Caller, id)
    \/ TaskUpdate(Caller, EmptyPatch)
    \/ TaskUpdateCarrying(Caller, Jan2)
    \/ \E id \in 1..MaxRaceRows : TaskDelete(Caller, id)
    \/ TaskGetAll(Caller, "", DefaultTaskFilters)
    \/ categories_id_seq < MaxRaceRows /\ CategoryInsert(Caller, OneCategoryDraft)
    \/ \E id \in 1..MaxRaceRows : CategoryGet(Caller, id)
    \/ \E u \in CategoryUpdates : u.ID <= MaxRaceRows /\ CategoryUpdate(Caller, u)
    \/ \E id \in 1..MaxRaceRows : CategoryDelete(Caller, id)
    \/ CategoryGetAll(Caller, DefaultCategoryFilters)

SpecWriteOnce == Init /\ [][NextWriteOnce]_vars

-----------------------------------------------------------------------------
(* Listing: one client fills and empties the tasks table and lists it with *)
(* every title filter, page, page size and sort of the safelist.           *)

NextList ==
    \/ \E t \in TaskDrafts : tasks_id_seq < MaxRows /\ TaskInsert(Caller, t)
    \/ \E id \in IdArgs : TaskDelete(Caller, id)
    \/ \E title \in TitleFilters, f \in TaskFilters : TaskGetAll(Caller, title, f)

SpecList == Init /\ [][NextList]_vars

-----------------------------------------------------------------------------
(* The task handlers.  A request is served by a client; updateTaskHandler  *)
(* issues two statements, so it takes two steps and other requests may run *)
(* between its Get and its Update.                                         *)

\* a request body that readJSON rejects
BadBody == [bad |-> TRUE]

\* the bodies of POST /v1/tasks that readJSON decodes into the input struct
CreateBodies ==
    {[Title |-> ti, Description |-> "d", DueDate |-> Jan1, Priority |-> "high",
      Status |-> "todo", Category |-> "work"] : ti \in {"a", "b", ""}}

\* the bodies of PATCH /v1/tasks/:id that readJSON decodes into the input struct
PatchBodies ==
    {EmptyPatch,
     [EmptyPatch EXCEPT !.Title = {"b"}],
     [EmptyPatch EXCEPT !.Title = {""}]}

\* the store calls the request c serves has made so far: a handler that is
\* past its first statement has called Get
CallsSoFar(c) == IF pc[c] = "idle" THEN <<>> ELSE <<"Get">>

\* the task createTaskHandler builds from the body
TaskOfBody(body) ==
    [ZeroTask EXCEPT !.Title = body.Title, !.Description = body.Description,
                     !.DueDate = body.DueDate, !.Priority = body.Priority,
                     !.Status = body.Status, !.Category = body.Category]

\* a createTaskHandler that calls Insert before it looks at the validator
createTaskHandlerInsertsFirst(c, body) ==
    /\ pc[c] = "idle"
    /\ IF body = BadBody
       THEN /\ last' = [op |-> "createTaskHandler", c |-> c,
                        response |-> "badRequestResponse", calls |-> <<>>]
            /\ UNCHANGED <<driver, walk, tasks, tasks_id_seq, tasks_user_id_seq>>
       ELSE LET t == TaskOfBody(body)
                r == TaskModelInsert(tasks, tasks_id_seq, tasks_user_id_seq, now, t)
            IN  /\ tasks' = r.tasks
                /\ tasks_id_seq' = r.id_seq
                /\ tasks_user_id_seq' = r.user_id_seq
                /\ last' = IF ~Valid(ValidateTask(t))
                           THEN [op |-> "createTaskHandler", c |-> c,
                                 response |-> "failedValidationResponse",
                                 errors |-> ValidateTask(t),
                                 calls |-> <<"Insert">>, entity |-> t]
                           ELSE [op |-> "createTaskHandler", c |-> c,
                                 response |-> "StatusCreated", task |-> r.task,
                                 calls |-> <<"Insert">>, entity |-> t]
    /\ UNCHANGED <<driver, walk, category, inflight, categories, categories_id_seq, now, task,
                   pc, deleted, wins>>

\* createTaskHandler: decode, build the task, validate, Insert
createTaskHandler(c, body) ==
    /\ pc[c] = "idle"
    /\ IF body = BadBody
       THEN /\ last' = [op |-> "createTaskHandler", c |-> c,
                        response |-> "badRequestResponse", calls |-> <<>>]
            /\ UNCHANGED <<driver, walk, tasks, tasks_id_seq, tasks_user_id_seq>>
       ELSE LET t == TaskOfBody(body)
            IN  IF ~Valid(ValidateTask(t))
                THEN /\ last' = [op |-> "createTaskHandler", c |-> c,
                                 response |-> "failedValidationResponse",
                                 errors |-> ValidateTask(t), calls |-> <<>>]
                     /\ UNCHANGED <<driver, walk, tasks, tasks_id_seq, tasks_user_id_seq>>
                ELSE LET r == TaskModelInsert(tasks, tasks_id_seq,
                                              tasks_user_id_seq, now, t)
                     IN  /\ tasks' = r.tasks
                         /\ tasks_id_seq' = r.id_seq
                         /\ tasks_user_id_seq' = r.user_id_seq
                         /\ last' = [op |-> "createTaskHandler", c |-> c,
                                     response |-> "StatusCreated",
                                     task |-> r.task,
                                     calls |-> <<"Insert">>, entity |-> t]
    /\ UNCHANGED <<driver, walk, category, inflight, categories, categories_id_seq, now, task, pc, deleted, wins>>

\* showTaskHandler: Get and write the task
showTaskHandler(c, id) ==
    /\ pc[c] = "idle"
    /\ LET r == TaskModelGet(tasks, id)
       IN  last' = IF r.err = ErrRecordNotFound
                   THEN [op |-> "showTaskHandler", c |-> c,
                         response |-> "notFoundResponse"]
                   ELSE [op |-> "showTaskHandler", c |-> c,
                         response |-> "StatusOK", task |-> r.task]
    /\ UNCHANGED <<driver, walk, category, inflight, tasks, tasks_id_seq, tasks_user_id_seq, categories,
                   categories_id_seq, now, task, pc, deleted, wins>>

\* updateTaskHandler up to its first statement: Get the task; a missing
\* record ends the request with notFoundResponse
updateTaskHandlerGet(c, id) ==
    /\ pc[c] = "idle"
    /\ LET r == TaskModelGet(tasks, id)
       IN  IF r.err = ErrRecordNotFound
           THEN /\ last' = [op |-> "updateTaskHandler", c |-> c,
                            response |-> "notFoundResponse", calls |-> <<"Get">>]
                /\ UNCHANGED <<driver, walk, task, pc>>
           ELSE /\ task' = [task EXCEPT ![c] = r.task]
                /\ pc' = [pc EXCEPT ![c] = "updateTaskHandler"]
                /\ last' = [op |-> "Get", c |-> c, id |-> id, task |-> r.task,
                            err |-> r.err, queried |-> r.queried]
    /\ UNCHANGED <<driver, walk, category, inflight, tasks, tasks_id_seq, tasks_user_id_seq, categories,
                   categories_id_seq, now, deleted, wins>>

\* the rest of updateTaskHandler: decode the body, copy the fields it has
\* into the task, validate, Update
updateTaskHandlerUpdate(c, body) ==
    /\ pc[c] = "updateTaskHandler"
    /\ pc' = [pc EXCEPT ![c] = "idle"]
    /\ task' = [task EXCEPT ![c] = NoTask]
    /\ IF body = BadBody
       THEN /\ last' = [op |-> "updateTaskHandler", c |-> c,
                        response |-> "badRequestResponse",
                        calls |-> CallsSoFar(c)]
            /\ UNCHANGED <<driver, walk, tasks, wins>>
       ELSE LET t == ApplyPatch(task[c], body)
            IN  IF ~Valid(ValidateTask(t))
                THEN /\ last' = [op |-> "updateTaskHandler", c |-> c,
                                 response |-> "failedValidationResponse",
                                 errors |-> ValidateTask(t),
                                 calls |-> CallsSoFar(c)]
                     /\ UNCHANGED <<driver, walk, tasks, wins>>
                ELSE LET r == TaskModelUpdate(tasks, t)
                     IN  /\ r.err = Nil => r.task.Version <= MaxVersion
                         /\ tasks' = r.tasks
                         /\ wins' = CountWin(wins, t, r.err)
                         /\ last' = [op |-> "updateTaskHandler", c |-> c,
                                     response |-> IF r.err = ErrEditConflict
                                                  THEN "editConflictResponse"
                                                  ELSE "StatusOK",
                                     task |-> r.task,
                                     calls |-> CallsSoFar(c) \o <<"Update">>,
                                     entity |-> t]
    /\ UNCHANGED <<driver, walk, category, inflight, tasks_id_seq, tasks_user_id_seq, categories,
                   categories_id_seq, now, deleted>>

\* deleteTaskHandler: Delete and report
deleteTaskHandler(c, id) ==
    /\ pc[c] = "idle"
    /\ LET r == TaskModelDelete(tasks, id)
       IN  /\ tasks' = r.tasks
           /\ deleted' = IF r.err = Nil
                         THEN [deleted EXCEPT !.tasks = @ \cup {id}]
                         ELSE deleted
           /\ last' = [op |-> "deleteTaskHandler", c |-> c,
                       response |-> IF r.err = ErrRecordNotFound
                                    THEN "notFoundResponse"
                                    ELSE "StatusOK"]
    /\ UNCHANGED <<driver, walk, category, inflight, tasks_id_seq, tasks_user_id_seq, categories,
                   categories_id_seq, now, task, pc, wins>>

\* app.readString and app.readInt: the value of the key in the query string,
\* the default when the key is absent
readString(value, defaultValue) ==
    IF value = Absent THEN defaultValue ELSE Deref(value)

readInt(value, defaultValue) ==
    IF value = Absent THEN defaultValue ELSE Deref(value)

\* the Filters listTasksHandler builds from the query string
ListFilters(qs) ==
    [Page |-> readInt(qs.page, 1), PageSize |-> readInt(qs.page_size, 20),
     Sort |-> readString(qs.sort, "id"), SortSafelist |-> TaskSortSafelist]

\* a listTasksHandler that calls GetAll before it looks at the validator
listTasksHandlerChecksAfter(c, qs) ==
    /\ pc[c] = "idle"
    /\ LET title == readString(qs.title, "")
           f == ListFilters(qs)
           errors == ValidateFilters(NoErrors, f)
           r == TaskModelGetAll(tasks, title, f)
       IN  last' = IF ~Valid(errors)
                   THEN [op |-> "listTasksHandler", c |-> c, title |-> title,
                         filters |-> f, response |-> "failedValidationResponse",
                         errors |-> errors,
                         calls |-> <<[op |-> "GetAll", query |-> r.query]>>]
                   ELSE [op |-> "listTasksHandler", c |-> c, title |-> title,
                         filters |-> f, response |-> "StatusOK",
                         tasks |-> r.tasks, metadata |-> r.metadata,
                         calls |-> <<[op |-> "GetAll", query |-> r.query]>>]
    /\ UNCHANGED <<driver, walk, category, inflight, tasks, tasks_id_seq, tasks_user_id_seq, categories,
                   categories_id_seq, now, task, pc, deleted, wins>>

\* listTasksHandler: read the query string, validate the Filters, GetAll.
\* calls lists the store calls the request has made.
listTasksHandler(c, qs) ==
    /\ pc[c] = "idle"
    /\ LET title == readString(qs.title, "")
           f == ListFilters(qs)
           errors == ValidateFilters(NoErrors, f)
       IN  IF ~Valid(errors)
           THEN last' = [op |-> "listTasksHandler", c |-> c, title |-> title,
                         filters |-> f, response |-> "failedValidationResponse",
                         errors |-> errors, calls |-> <<>>]
           ELSE LET r == TaskModelGetAll(tasks, title, f)
                IN  last' = [op |-> "listTasksHandler", c |-> c, title |-> title,
                             filters |-> f, response |-> "StatusOK",
                             tasks |-> r.tasks, metadata |-> r.metadata,
                             calls |-> <<[op |-> "GetAll", query |-> r.query]>>]
    /\ UNCHANGED <<driver, walk, category, inflight, tasks, tasks_id_seq, tasks_user_id_seq, categories,
                   categories_id_seq, now, task, pc, deleted, wins>>

NextApi ==
    \/ Tick
    \/ \E c \in Clients, body \in CreateBodies \cup {BadBody} :
         tasks_id_seq < MaxRaceRows /\ createTaskHandler(c, body)
    \/ \E c \in Clients, id \in IdArgs : showTaskHandler(c, id)
    \/ \E c \in Clients, id \in IdArgs : updateTaskHandlerGet(c, id)
    \/ \E c \in Clients, body \in PatchBodies \cup {BadBody} : updateTaskHandlerUpdate(c, body)
    \/ \E c \in Clients, id \in IdArgs : deleteTaskHandler(c, id)

SpecApi == Init /\ [][NextApi]_vars

-----------------------------------------------------------------------------
(* GET /v1/tasks: one client fills the tasks table with tasks of two due   *)
(* dates and lists it with every query string below.                       *)

\* task A, due 2024-01-01 00:00:00, and task B, due 2024-01-02 00:00:00
TaskA == [OneTaskDraft EXCEPT !.Title = "a", !.DueDate = Jan1]
TaskB == [OneTaskDraft EXCEPT !.Title = "b", !.DueDate = Jan2]

\* the values of the sort key of the query string: the tokens of the safelist
\* and two tokens that name a column of tasks the safelist does not have
SortValues == TaskSortSafelist \cup {"due_date", "-due_date"}

\* the query strings: each key absent or present; page and page_size in and
\* out of their ranges
ListQueries ==
    {[title |-> Absent, page |-> p, page_size |-> ps, sort |-> so] :
        p \in {Absent, {0}, {1}, {2}, {MaxPage + 1}},
        ps \in {Absent, {0}, {1}, {MaxPageSize + 1}},
        so \in {Absent} \cup {{x} : x \in SortValues}}

NextListApi ==
    \/ \E t \in {TaskA, TaskB} : tasks_id_seq < MaxRows /\ TaskInsert(Caller, t)
    \/ \E id \in IdArgs : TaskDelete(Caller, id)
    \/ \E qs \in ListQueries : listTasksHandler(Caller, qs)

SpecListApi == Init /\ [][NextListApi]_vars

-----------------------------------------------------------------------------
(* The category handlers.  updateCategoryHandler issues two statements,    *)
(* Get and Update, and other requests may run between them.                *)

\* the bodies of POST /v1/categories that readJSON decodes
CategoryBodies ==
    {[Name |-> n, Description |-> "e"] : n \in {"home", ""}}

EmptyCategoryPatch == [Name |-> Absent, Description |-> Absent]

\* the bodies of PATCH /v1/categories/:id that readJSON decodes
CategoryPatchBodies ==
    {EmptyCategoryPatch,
     [EmptyCategoryPatch EXCEPT !.Name = {"work"}],
     [EmptyCategoryPatch EXCEPT !.Description = {"d"}],
     [EmptyCategoryPatch EXCEPT !.Name = {""}]}

\* assignments that copy a description of the body into the name
ApplyCategoryPatchWrongField(cat, input) ==
    [cat EXCEPT
       !.Name = IF input.Description # Absent THEN Deref(input.Description)
                ELSE IF input.Name # Absent THEN Deref(input.Name) ELSE @]

\* the assignments "if input.X != nil { category.X = *input.X }"
ApplyCategoryPatch(cat, input) ==
    [cat EXCEPT
       !.Name = IF input.Name # Absent THEN Deref(input.Name) ELSE @,
       !.Description = IF input.Description # Absent THEN Deref(input.Description) ELSE @]

\* createCategoryHandler: decode, build the category, validate, Insert
createCategoryHandler(c, body) ==
    /\ pc[c] = "idle"
    /\ IF body = BadBody
       THEN /\ last' = [op |-> "createCategoryHandler", c |-> c,
                        response |-> "badRequestResponse", calls |-> <<>>]
            /\ UNCHANGED <<driver, walk, categories, categories_id_seq>>
       ELSE LET cat == [ID |-> 0, CreatedAt |-> ZeroTime, Name |-> body.Name,
                        Description |-> body.Description]
            IN  IF ~Valid(ValidateCategory(cat))
                THEN /\ last' = [op |-> "createCategoryHandler", c |-> c,
                                 response |-> "failedValidationResponse",
                                 errors |-> ValidateCategory(cat), calls |-> <<>>]
                     /\ UNCHANGED <<driver, walk, categories, categories_id_seq>>
                ELSE LET r == CategoryModelInsert(categories, categories_id_seq, now, cat)
                     IN  /\ categories' = r.categories
                         /\ categories_id_seq' = r.id_seq
                         /\ last' = [op |-> "createCategoryHandler", c |-> c,
                                     response |-> "StatusCreated",
                                     category |-> r.category,
                                     calls |-> <<"Insert">>, entity |-> cat]
    /\ UNCHANGED <<driver, walk, tasks, tasks_id_seq, tasks_user_id_seq, now, task, category,
                   inflight, pc, deleted, wins>>

\* showCategoryHandler: Get and write the category
showCategoryHandler(c, id) ==
    /\ pc[c] = "idle"
    /\ LET r == CategoryModelGet(categories, id)
       IN  last' = IF r.err = ErrRecordNotFound
                   THEN [op |-> "showCategoryHandler", c |-> c,
                         response |-> "notFoundResponse", calls |-> <<"Get">>]
                   ELSE [op |-> "showCategoryHandler", c |-> c,
                         response |-> "StatusOK", category |-> r.category,
                         calls |-> <<"Get">>]
    /\ UNCHANGED <<driver, walk, tasks, tasks_id_seq, tasks_user_id_seq, categories,
                   categories_id_seq, now, task, category, inflight, pc,
                   deleted, wins>>

\* updateCategoryHandler up to its first statement: Get the category; a
\* missing record ends the request with notFoundResponse
updateCategoryHandlerGet(c, id) ==
    /\ pc[c] = "idle"
    /\ LET r == CategoryModelGet(categories, id)
       IN  IF r.err = ErrRecordNotFound
           THEN /\ last' = [op |-> "updateCategoryHandler", c |-> c,
                            response |-> "notFoundResponse", calls |-> <<"Get">>]
                /\ UNCHANGED <<driver, walk, category, pc>>
           ELSE /\ category' = [category EXCEPT ![c] = r.category]
                /\ pc' = [pc EXCEPT ![c] = "updateCategoryHandler"]
                /\ last' = [op |-> "CategoryGet", c |-> c, id |-> id,
                            category |-> r.category, err |-> r.err,
                            queried |-> r.queried]
    /\ UNCHANGED <<driver, walk, tasks, tasks_id_seq, tasks_user_id_seq, categories,
                   categories_id_seq, now, task, inflight, deleted, wins>>

\* the rest of updateCategoryHandler: decode the body, copy the fields it
\* has into the category, validate, Update.  body is the decoded input,
\* read the category the Get of the request returned, overwritten the row
\* the Update replaced.
updateCategoryHandlerUpdate(c, body) ==
    /\ pc[c] = "updateCategoryHandler"
    /\ pc' = [pc EXCEPT ![c] = "idle"]
    /\ category' = [category EXCEPT ![c] = NoCategory]
    /\ IF body = BadBody
       THEN /\ last' = [op |-> "updateCategoryHandler", c |-> c,
                        response |-> "badRequestResponse",
                        calls |-> CallsSoFar(c)]
            /\ UNCHANGED categories
       ELSE LET cat == ApplyCategoryPatch(category[c], body)
            IN  IF ~Valid(ValidateCategory(cat))
                THEN /\ last' = [op |-> "updateCategoryHandler", c |-> c,
                                 response |-> "failedValidationResponse",
                                 errors |-> ValidateCategory(cat),
                                 calls |-> CallsSoFar(c)]
                     /\ UNCHANGED categories
                ELSE LET r == CategoryModelUpdate(categories, cat)
                     IN  /\ categories' = r.categories
                         /\ last' = [op |-> "updateCategoryHandler", c |-> c,
                                     response |-> IF r.err = Nil
                                                  THEN "StatusOK"
                                                  ELSE "serverErrorResponse",
                                     err |-> r.err,
                                     category |-> cat,
                                     body |-> body,
                                     read |-> category[c],
                                     overwritten |-> IF cat.ID \in DOMAIN categories
                                                     THEN ScanCategory(categories[cat.ID])
                                                     ELSE NoCategory,
                                     calls |-> CallsSoFar(c) \o <<"Update">>,
                                     entity |-> cat]
    /\ UNCHANGED <<driver, walk, tasks, tasks_id_seq, tasks_user_id_seq, categories_id_seq,
                   now, task, inflight, deleted, wins>>

\* deleteCategoryHandler: Delete and report
deleteCategoryHandler(c, id) ==
    /\ pc[c] = "idle"
    /\ LET r == CategoryModelDelete(categories, id)
       IN  /\ categories' = r.categories
           /\ deleted' = IF r.err = Nil
                         THEN [deleted EXCEPT !.categories = @ \cup {id}]
                         ELSE deleted
           /\ last' = [op |-> "deleteCategoryHandler", c |-> c,
                       response |-> IF r.err = ErrRecordNotFound
                                    THEN "notFoundResponse"
                                    ELSE "StatusOK",
                       calls |-> <<"Delete">>]
    /\ UNCHANGED <<driver, walk, tasks, tasks_id_seq, tasks_user_id_seq, categories_id_seq,
                   now, task, category, inflight, pc, wins>>

\* the category requests of concurrent clients
NextCategoryApi ==
    \/ \E c \in Clients, body \in CategoryBodies \cup {BadBody} :
         categories_id_seq < MaxRaceRows /\ createCategoryHandler(c, body)
    \/ \E c \in Clients, id \in IdArgs : showCategoryHandler(c, id)
    \/ \E c \in Clients, id \in IdArgs : updateCategoryHandlerGet(c, id)
    \/ \E c \in Clients, body \in CategoryPatchBodies \cup {BadBody} :
         updateCategoryHandlerUpdate(c, body)
    \/ \E c \in Clients, id \in IdArgs : deleteCategoryHandler(c, id)

SpecCategoryApi == Init /\ [][NextCategoryApi]_vars

-----------------------------------------------------------------------------
(* CategoryModel.Update of rows that are not there: clients call Update of *)
(* the store with ids of their choice, and update requests race with       *)
(* delete requests.                                                        *)

NextCategoryUpdate ==
    \/ \E c \in Clients :
         categories_id_seq < MaxRaceRows /\ CategoryInsert(c, OneCategoryDraft)
    \/ \E c \in Clients, u \in CategoryUpdates : CategoryUpdate(c, u)
    \/ \E c \in Clients, id \in IdArgs : updateCategoryHandlerGet(c, id)
    \/ \E c \in Clients, body \in CategoryPatchBodies :
         updateCategoryHandlerUpdate(c, body)
    \/ \E c \in Clients, id \in IdArgs : deleteCategoryHandler(c, id)

SpecCategoryUpdate == Init /\ [][NextCategoryUpdate]_vars

-----------------------------------------------------------------------------
(* The create and update handlers of both resources, served one request at *)
(* a time.                                                                 *)

NextValidation ==
    \/ \E body \in CreateBodies \cup {BadBody} :
         tasks_id_seq < MaxRaceRows /\ createTaskHandler(Caller, body)
    \/ \E id \in IdArgs : updateTaskHandlerGet(Caller, id)
    \/ \E body \in PatchBodies \cup {BadBody} : updateTaskHandlerUpdate(Caller, body)
    \/ \E body \in CategoryBodies \cup {BadBody} :
         categories_id_seq < MaxRaceRows /\ createCategoryHandler(Caller, body)
    \/ \E id \in IdArgs : updateCategoryHandlerGet(Caller, id)
    \/ \E body \in CategoryPatchBodies \cup {BadBody} :
         updateCategoryHandlerUpdate(Caller, body)

SpecValidation == Init /\ [][NextValidation]_vars

-----------------------------------------------------------------------------
(* CustomTime on the wire.  A time.Time is an instant and the offset of    *)
(* its location: [days, secs] is the instant in UTC, offset the seconds    *)
(* east of UTC of the location the value carries.  A text in the layout    *)
(* "2006-01-02 15:04:05" is the tuple of its six numbers; a text that goes *)
(* on with a fractional second (".5") has the nanoseconds as its fraction. *)

\* the instant ct in the location with the given offset
TimeIn(ct, off) ==
    [days |-> ct.days, secs |-> ct.secs, nsec |-> ct.nsec, offset |-> off]

\* the date and the second of the day the clock of the location of t shows
WallClock(t) ==
    LET total == t.secs + t.offset + SecondsPerDay
    IN  DateNano(t.days + (total \div SecondsPerDay) - 1, total % SecondsPerDay,
                 t.nsec)

\* year, month and day of the day number days (0 is 0001-01-01)
CivilFromDays(days) ==
    LET z == days + 306
        era == z \div 146097
        doe == z - era * 146097
        yoe == (doe - (doe \div 1460) + (doe \div 36524) - (doe \div 146096)) \div 365
        doy == doe - (365 * yoe + (yoe \div 4) - (yoe \div 100))
        mp == (5 * doy + 2) \div 153
        d == doy - ((153 * mp + 2) \div 5) + 1
        m == IF mp < 10 THEN mp + 3 ELSE mp - 9
    IN  [year |-> yoe + era * 400 + (IF m <= 2 THEN 1 ELSE 0), month |-> m, day |-> d]

\* the day number of year-month-day
DaysFromCivil(year, month, day) ==
    LET y == year - (IF month <= 2 THEN 1 ELSE 0)
        era == y \div 400
        yoe == y - era * 400
        mp == IF month > 2 THEN month - 3 ELSE month + 9
        doy == ((153 * mp + 2) \div 5) + day - 1
        doe == yoe * 365 + (yoe \div 4) - (yoe \div 100) + doy
    IN  era * 146097 + doe - 306

IsLeap(year) == year % 4 = 0 /\ (year % 100 # 0 \/ year % 400 = 0)

DaysInMonth(year, month) ==
    CASE month \in {4, 6, 9, 11} -> 30
      [] month = 2 -> IF IsLeap(year) THEN 29 ELSE 28
      [] OTHER -> 31

\* time.Time.Format("2006-01-02 15:04:05"): the wall clock of t in its own
\* location, without the offset and without the fraction of the second
Format(t) ==
    LET w == WallClock(t)
        civil == CivilFromDays(w.days)
    IN  [layout |-> <<civil.year, civil.month, civil.day,
                      w.secs \div 3600, (w.secs % 3600) \div 60, w.secs % 60>>]

\* time.Parse("2006-01-02 15:04:05", text): a text in the layout with every
\* number in range is that wall clock in UTC; a fractional second right
\* after the seconds is accepted although the layout has none; anything else
\* is an error
Parse(text) ==
    IF /\ "layout" \in DOMAIN text
       /\ text.layout[1] \in 0..9999
       /\ text.layout[2] \in 1..12
       /\ text.layout[3] \in 1..DaysInMonth(text.layout[1], text.layout[2])
       /\ text.layout[4] \in 0..23
       /\ text.layout[5] \in 0..59
       /\ text.layout[6] \in 0..59
    THEN [t |-> TimeIn(DateNano(DaysFromCivil(text.layout[1], text.layout[2],
                                              text.layout[3]),
                                text.layout[4] * 3600 + text.layout[5] * 60
                                    + text.layout[6],
                                IF "fraction" \in DOMAIN text
                                THEN text.fraction ELSE 0),
                       0),
          err |-> Nil]
    ELSE [t |-> TimeIn(ZeroTime, 0), err |-> "parsing time"]

\* strconv.Quote and strconv.Unquote: a JSON string and its text
Quote(text) == [quoted |-> text]

Unquote(json) ==
    IF "quoted" \in DOMAIN json
    THEN [text |-> json.quoted, err |-> Nil]
    ELSE [text |-> [other |-> ""], err |-> "invalid syntax"]

ErrInvalidTimeFormat == "invalid Time format"

\* CustomTime.MarshalJSON
CustomTimeMarshalJSON(ct) == [json |-> Quote(Format(ct)), err |-> Nil]

\* CustomTime.UnmarshalJSON on the receiver ct: the receiver is assigned only
\* when the value is a string in the layout
CustomTimeUnmarshalJSON(ct, json) ==
    LET u == Unquote(json)
        parsed == Parse(u.text)
    IN  IF u.err # Nil
        THEN [ct |-> ct, err |-> ErrInvalidTimeFormat]
        ELSE IF parsed.err # Nil
             THEN [ct |-> ct, err |-> ErrInvalidTimeFormat]
             ELSE [ct |-> parsed.t, err |-> Nil]

\* CustomTime.Scan: a time.Time of the driver is kept as it is, with its
\* location; NULL is the zero time; anything else is an error
CustomTimeScan(ct, value) ==
    CASE "time" \in DOMAIN value -> [ct |-> value.time, err |-> Nil]
      [] "null" \in DOMAIN value -> [ct |-> TimeIn(ZeroTime, 0), err |-> Nil]
      [] OTHER -> [ct |-> ct, err |-> "unsupported type for CustomTime"]

\* the offsets of the time zone of the session in which the backend sends
\* its timestamps: UTC-5, UTC and UTC+6
TimeZoneOffsets == {-18000, 0, 21600}

\* what the driver hands to Scan: timestamps with second precision, NULL,
\* and a value of another type
DriverValues ==
    {[time |-> TimeIn(Date(d, sec), off)] :
        d \in {738885, 738944, 739250},
        sec \in {0, 1, 21600, 43200, 86399},
        off \in TimeZoneOffsets}
    \cup {[null |-> TRUE], [bytes |-> "2024-01-01"]}

\* the JSON values of a due_date in a request body: strings in the layout
\* (in and out of range, with and without a fractional second), other
\* strings, and a number
BodyValues ==
    {Quote([layout |-> <<2024, 1, 1, 0, 0, 0>>]),
     Quote([layout |-> <<2024, 1, 1, 0, 0, 0>>, fraction |-> 500000000]),
     Quote([layout |-> <<2059, 12, 31, 23, 59, 59>>, fraction |-> 600000000]),
     Quote([layout |-> <<2024, 2, 29, 23, 59, 59>>]),
     Quote([layout |-> <<2023, 2, 29, 0, 0, 0>>]),
     Quote([layout |-> <<2024, 13, 1, 0, 0, 0>>]),
     Quote([layout |-> <<2024, 1, 1, 24, 0, 0>>]),
     Quote([other |-> "2024-01-01T00:00:00Z"]),
     Quote([other |-> ""]),
     [number |-> 5]}

\* a column of the backend is scanned into a CustomTime
ScanValue(c, value) ==
    /\ pc[c] = "idle"
    /\ LET r == CustomTimeScan(TimeIn(ZeroTime, 0), value)
       IN  last' = [op |-> "Scan", c |-> c, value |-> value, ct |-> r.ct,
                    err |-> r.err]
    /\ UNCHANGED <<driver, walk, tasks, tasks_id_seq, tasks_user_id_seq, categories,
                   categories_id_seq, now, task, category, inflight, pc,
                   deleted, wins>>

\* the scanned CustomTime is written into a response
EncodeScanned(c) ==
    /\ pc[c] = "idle"
    /\ last.op = "Scan"
    /\ last.err = Nil
    /\ LET r == CustomTimeMarshalJSON(last.ct)
       IN  last' = [op |-> "MarshalJSON", c |-> c, ct |-> last.ct,
                    json |-> r.json, err |-> r.err]
    /\ UNCHANGED <<driver, walk, tasks, tasks_id_seq, tasks_user_id_seq, categories,
                   categories_id_seq, now, task, category, inflight, pc,
                   deleted, wins>>

\* what MarshalJSON wrote is read back with UnmarshalJSON; from is the
\* CustomTime that was encoded
DecodeEncoded(c) ==
    /\ pc[c] = "idle"
    /\ last.op = "MarshalJSON"
    /\ LET r == CustomTimeUnmarshalJSON(TimeIn(ZeroTime, 0), last.json)
       IN  last' = [op |-> "UnmarshalJSON", c |-> c, from |-> last.ct,
                    json |-> last.json, ct |-> r.ct, err |-> r.err]
    /\ UNCHANGED <<driver, walk, tasks, tasks_id_seq, tasks_user_id_seq, categories,
                   categories_id_seq, now, task, category, inflight, pc,
                   deleted, wins>>

\* the due_date of a request body is read with UnmarshalJSON
DecodeBody(c, json) ==
    /\ pc[c] = "idle"
    /\ LET r == CustomTimeUnmarshalJSON(TimeIn(ZeroTime, 0), json)
       IN  last' = [op |-> "UnmarshalJSON", c |-> c, from |-> NoCall,
                    json |-> json, ct |-> r.ct, err |-> r.err]
    /\ UNCHANGED <<driver, walk, tasks, tasks_id_seq, tasks_user_id_seq, categories,
                   categories_id_seq, now, task, category, inflight, pc,
                   deleted, wins>>

NextTime ==
    \/ \E value \in DriverValues : ScanValue(Caller, value)
    \/ EncodeScanned(Caller)
    \/ DecodeEncoded(Caller)
    \/ \E json \in BodyValues : DecodeBody(Caller, json)

SpecTime == Init /\ [][NextTime]_vars

-----------------------------------------------------------------------------
(* GET /v1/categories: one client fills the categories table and asks for  *)
(* the list with every query string below.                                 *)

\* the Filters listCategoriesHandler builds from the query string
CategoryListFilters(qs) ==
    [Page |-> readInt(qs.page, 1), PageSize |-> readInt(qs.page_size, 20),
     Sort |-> readString(qs.sort, "id"), SortSafelist |-> CategorySortSafelist]

\* listCategoriesHandler: read the query string and validate the Filters.
\* After a successful validation the function body ends: no store call is
\* made and nothing is written, so net/http answers 200 with an empty body.
\* calls lists the store calls the request has made, body what was written.
listCategoriesHandler(c, qs) ==
    /\ pc[c] = "idle"
    /\ LET name == readString(qs.name, "")
           f == CategoryListFilters(qs)
           errors == ValidateFilters(NoErrors, f)
       IN  IF ~Valid(errors)
           THEN last' = [op |-> "listCategoriesHandler", c |-> c, name |-> name,
                         filters |-> f, response |-> "failedValidationResponse",
                         calls |-> <<>>, body |-> <<[error |-> errors]>>]
           ELSE last' = [op |-> "listCategoriesHandler", c |-> c, name |-> name,
                         filters |-> f, response |-> "StatusOK",
                         calls |-> <<>>, body |-> <<>>]
    /\ UNCHANGED <<driver, walk, tasks, tasks_id_seq, tasks_user_id_seq, categories,
                   categories_id_seq, now, task, category, inflight, pc,
                   deleted, wins>>

\* the query strings of GET /v1/categories
CategoryListQueries ==
    {[name |-> n, page |-> p, page_size |-> ps, sort |-> so] :
        n \in {Absent, {"home"}, {"work"}},
        p \in {Absent, {0}, {1}, {2}},
        ps \in {Absent, {1}, {MaxPageSize + 1}},
        so \in {Absent} \cup {{x} : x \in CategorySortSafelist \cup {"title"}}}

\* GET /v1/categories with the query string qs, as routes() serves it: the
\* router has the four routes of /v1/category below and none for
\* listCategoriesHandler, so the request ends in router.NotFound, which is
\* notFoundResponse (body: its error envelope); name and filters are what
\* the query string asks for
GetCategories(c, qs) ==
    LET registered == {<<"POST", "/v1/category">>, <<"PATCH", "/v1/category/:id">>,
                       <<"DELETE", "/v1/category/:id">>, <<"GET", "/v1/category/:id">>}
    IN  IF <<"GET", "/v1/categories">> \in registered
        THEN listCategoriesHandler(c, qs)
        ELSE /\ pc[c] = "idle"
             /\ last' = [op |-> "GET /v1/categories", c |-> c,
                         name |-> readString(qs.name, ""),
                         filters |-> CategoryListFilters(qs),
                         response |-> "notFoundResponse", calls |-> <<>>,
                         body |-> <<[error |-> "notFoundResponse"]>>]
             /\ UNCHANGED <<driver, walk, tasks, tasks_id_seq, tasks_user_id_seq,
                            categories, categories_id_seq, now, task, category,
                            inflight, pc, deleted, wins>>

NextCategoryListApi ==
    \/ \E d \in CategoryDrafts :
         categories_id_seq < MaxRows /\ CategoryInsert(Caller, d)
    \/ \E id \in IdArgs : CategoryDelete(Caller, id)
    \/ \E qs \in CategoryListQueries : GetCategories(Caller, qs)

SpecCategoryListApi == Init /\ [][NextCategoryListApi]_vars

-----------------------------------------------------------------------------
(* Tokens that outlive their row: both clients insert, read, update and    *)
(* delete tasks, so a client may hold the (id, version) of a row that       *)
(* another client has deleted while later rows are inserted.               *)

NextTokens ==
    \/ \E c \in Clients : tasks_id_seq < MaxRows /\ TaskInsert(c, OneTaskDraft)
    \/ \E c \in Clients, id \in 1..MaxRows : TaskGet(c, id)
    \/ \E c \in Clients : TaskUpdate(c, EmptyPatch)
    \/ \E c \in Clients, id \in 1..MaxRows : TaskDelete(c, id)

SpecTokens == Init /\ [][NextTokens]_vars

-----------------------------------------------------------------------------
(* Paging through a list: a caller asks GetAll for page 1 and, with the     *)
(* same filter, sort and page size, for every further page up to            *)
(* ceil(totalRecords / pageSize) of the first answer.  Every page is one    *)
(* call of GetAll, and requests of another client are served between two    *)
(* of them.                                                                 *)

\* the Filters of page p of a walk through the tasks
TaskPageFilters(p, pageSize, sort) ==
    [Page |-> p, PageSize |-> pageSize, Sort |-> sort, SortSafelist |-> TaskSortSafelist]

\* the Filters of page p of a walk through the categories
CategoryPageFilters(p, pageSize, sort) ==
    [Page |-> p, PageSize |-> pageSize, Sort |-> sort,
     SortSafelist |-> CategorySortSafelist]

\* what a walk w leaves behind once its last page is in: pages holds the
\* lists returned, in the order of the calls, and fixed tells whether the
\* table was the same at every one of the calls
WalkDone(w) ==
    [op |-> w.op, c |-> w.c, title |-> w.title, filters |-> w.filters,
     totalRecords |-> w.totalRecords, pages |-> w.pages, fixed |-> w.fixed]

\* c starts or continues a walk with the state w it has reached
WalkStep(c, w) ==
    IF Len(w.pages) >= (w.totalRecords + w.filters.PageSize - 1) \div w.filters.PageSize
    THEN /\ walk' = [walk EXCEPT ![c] = NoWalk]
         /\ last' = WalkDone(w)
    ELSE /\ walk' = [walk EXCEPT ![c] = w]
         /\ UNCHANGED last

\* c calls TaskModel.GetAll(title, f) for page 1
TaskGetAllPages(c, title, pageSize, sort) ==
    /\ pc[c] = "idle"
    /\ LET f == TaskPageFilters(1, pageSize, sort)
           r == TaskModelGetAll(tasks, title, f)
       IN  WalkStep(c, [op |-> "GetAllPages", c |-> c, title |-> title,
                        filters |-> f,
                        totalRecords |-> r.metadata.TotalRecords,
                        pages |-> IF r.metadata.TotalRecords = 0
                                  THEN <<>> ELSE <<r.tasks>>,
                        fixed |-> TRUE, start |-> tasks])
    /\ UNCHANGED <<driver, tasks, tasks_id_seq, tasks_user_id_seq, categories,
                   categories_id_seq, now, task, category, inflight, pc,
                   deleted, wins>>

\* c calls TaskModel.GetAll(title, f) for the next page of its walk
TaskGetAllNextPage(c) ==
    /\ pc[c] = "idle"
    /\ walk[c].op = "GetAllPages"
    /\ LET w == walk[c]
           f == TaskPageFilters(Len(w.pages) + 1, w.filters.PageSize, w.filters.Sort)
           r == TaskModelGetAll(tasks, w.title, f)
       IN  WalkStep(c, [w EXCEPT !.pages = Append(@, r.tasks),
                                 !.fixed = @ /\ tasks = w.start])
    /\ UNCHANGED <<driver, tasks, tasks_id_seq, tasks_user_id_seq, categories,
                   categories_id_seq, now, task, category, inflight, pc,
                   deleted, wins>>

\* c calls CategoryModel.GetAll(f) for page 1
CategoryGetAllPages(c, pageSize, sort) ==
    /\ pc[c] = "idle"
    /\ LET f == CategoryPageFilters(1, pageSize, sort)
           r == CategoryModelGetAll(categories, f)
       IN  WalkStep(c, [op |-> "CategoryGetAllPages", c |-> c, title |-> "",
                        filters |-> f,
                        totalRecords |-> r.metadata.TotalRecords,
                        pages |-> IF r.metadata.TotalRecords = 0
                                  THEN <<>> ELSE <<r.categories>>,
                        fixed |-> TRUE, start |-> categories])
    /\ UNCHANGED <<driver, tasks, tasks_id_seq, tasks_user_id_seq, categories,
                   categories_id_seq, now, task, category, inflight, pc,
                   deleted, wins>>

\* c calls CategoryModel.GetAll(f) for the next page of its walk
CategoryGetAllNextPage(c) ==
    /\ pc[c] = "idle"
    /\ walk[c].op = "CategoryGetAllPages"
    /\ LET w == walk[c]
           f == CategoryPageFilters(Len(w.pages) + 1, w.filters.PageSize,
                                    w.filters.Sort)
           r == CategoryModelGetAll(categories, f)
       IN  WalkStep(c, [w EXCEPT !.pages = Append(@, r.categories),
                                 !.fixed = @ /\ categories = w.start])
    /\ UNCHANGED <<driver, tasks, tasks_id_seq, tasks_user_id_seq, categories,
                   categories_id_seq, now, task, category, inflight, pc,
                   deleted, wins>>

\* a run fills, empties and walks one of the two tables: Caller walks, with
\* every row or the rows that match a title, by id or by a column with
\* ties, both ways, and the requests of the other client are served between
\* its pages
NextPages ==
    \/ \E c \in Clients \ {Caller}, t \in TaskDrafts :
         /\ categories_id_seq = 0
         /\ tasks_id_seq < MaxRows
         /\ TaskInsert(c, t)
    \/ \E c \in Clients \ {Caller}, id \in 1..MaxRows : TaskDelete(c, id)
    \/ \E c \in Clients \ {Caller}, d \in CategoryDrafts :
         /\ tasks_id_seq = 0
         /\ categories_id_seq < MaxRows
         /\ CategoryInsert(c, d)
    \/ \E c \in Clients \ {Caller}, id \in 1..MaxRows : CategoryDelete(c, id)
    \/ \E title \in {"", "a"}, pageSize \in PageSizes,
          sort \in {"id", "-id", "title", "-title"} :
         TaskGetAllPages(Caller, title, pageSize, sort)
    \/ TaskGetAllNextPage(Caller)
    \/ \E pageSize \in PageSizes, sort \in CategorySortSafelist :
         CategoryGetAllPages(Caller, pageSize, sort)
    \/ CategoryGetAllNextPage(Caller)

SpecPages == Init /\ [][NextPages]_vars

-----------------------------------------------------------------------------
(* The rows the handlers store: two clients send create, update and delete *)
(* requests for tasks and for categories, with bodies that pass and bodies *)
(* that fail validation, in any interleaving.                              *)

\* bodies of POST /v1/tasks: a valid one, one without a title, one due at
\* the lower bound of ValidateTask, one due 0.4 s before the upper bound and
\* one due 0.5000004 s before it, which only the backend's rounding of a
\* time sent as text takes to the bound
RowCreateBodies ==
    {[Title |-> "a", Description |-> "d", DueDate |-> Jan1, Priority |-> "high",
      Status |-> "todo", Category |-> "work"],
     [Title |-> "", Description |-> "d", DueDate |-> Jan1, Priority |-> "high",
      Status |-> "todo", Category |-> "work"],
     [Title |-> "a", Description |-> "d", DueDate |-> DueDateAfter,
      Priority |-> "high", Status |-> "todo", Category |-> "work"],
     [Title |-> "a", Description |-> "d",
      DueDate |-> DateNano(DueDateBefore.days - 1, SecondsPerDay - 1, 600000000),
      Priority |-> "high", Status |-> "todo", Category |-> "work"],
     [Title |-> "a", Description |-> "d",
      DueDate |-> DateNano(DueDateBefore.days - 1, SecondsPerDay - 1, 499999600),
      Priority |-> "high", Status |-> "todo", Category |-> "work"]}

\* bodies of PATCH /v1/tasks/:id: a new title, an empty title, a due date at
\* the upper bound of ValidateTask and one 0.4 s after the lower bound
RowPatchBodies ==
    {[EmptyPatch EXCEPT !.Title = {"b"}],
     [EmptyPatch EXCEPT !.Title = {""}],
     [EmptyPatch EXCEPT !.DueDate = {DueDateBefore}],
     [EmptyPatch EXCEPT !.DueDate = {DateNano(DueDateAfter.days, 0, 400000000)}]}

\* the update and delete requests address the first row of each table
FirstId == 1

NextRows ==
    \/ \E c \in Clients, body \in RowCreateBodies :
         tasks_id_seq < MaxRaceRows /\ createTaskHandler(c, body)
    \/ \E c \in Clients : updateTaskHandlerGet(c, FirstId)
    \/ \E c \in Clients, body \in RowPatchBodies : updateTaskHandlerUpdate(c, body)
    \/ \E c \in Clients : deleteTaskHandler(c, FirstId)
    \/ \E c \in Clients, body \in CategoryBodies :
         categories_id_seq < MaxRaceRows /\ createCategoryHandler(c, body)
    \/ \E c \in Clients : updateCategoryHandlerGet(c, FirstId)
    \/ \E c \in Clients, body \in CategoryPatchBodies :
         updateCategoryHandlerUpdate(c, body)
    \/ \E c \in Clients : deleteCategoryHandler(c, FirstId)

SpecRows == Init /\ [][NextRows]_vars

-----------------------------------------------------------------------------
(* The validators as functions of the entity they are handed.              *)

\* a text of n bytes
RECURSIVE Bytes(_)
Bytes(n) ==
    IF n = 0
    THEN ""
    ELSE IF n % 2 = 0
         THEN LET half == Bytes(n \div 2) IN half \o half
         ELSE "x" \o Bytes(n - 1)

\* the tasks handed to ValidateTask: every field empty, short, at its limit
\* and past it; the due date zero, at, next to (by a second and by a fraction
\* of a second) and between the two bounds
TasksToValidate ==
    {[ZeroTask EXCEPT !.Title = ti, !.Description = de, !.DueDate = du,
                      !.Priority = pr, !.Status = st, !.Category = ca] :
        ti \in {"", "a", Bytes(500), Bytes(501)},
        de \in {"", "d", Bytes(1000), Bytes(1001)},
        du \in {ZeroTime, TimeIn(ZeroTime, 21600), DueDateAfter,
                DateNano(DueDateAfter.days, 0, 400000000),
                Date(DueDateAfter.days, 1), Jan1,
                Date(DueDateBefore.days - 1, SecondsPerDay - 1),
                DateNano(DueDateBefore.days - 1, SecondsPerDay - 1, 600000000),
                DueDateBefore, Date(DueDateBefore.days, 1)},
        pr \in {"", "high"}, st \in {"", "todo"}, ca \in {"", "work"}}

\* the categories handed to ValidateCategory
CategoriesToValidate ==
    {[ID |-> 0, CreatedAt |-> ZeroTime, Name |-> n, Description |-> de] :
        n \in {"", "home", Bytes(100), Bytes(101)},
        de \in {"", "e", Bytes(500), Bytes(501)}}

\* v := validator.New(); ValidateTask(v, &t)
RunValidateTask(c, t) ==
    /\ pc[c] = "idle"
    /\ last' = [op |-> "ValidateTask", c |-> c, task |-> t,
                errors |-> ValidateTask(t)]
    /\ UNCHANGED <<driver, walk, tasks, tasks_id_seq, tasks_user_id_seq, categories,
                   categories_id_seq, now, task, category, inflight, pc,
                   deleted, wins>>

\* v := validator.New(); ValidateCategory(v, &cat)
RunValidateCategory(c, cat) ==
    /\ pc[c] = "idle"
    /\ last' = [op |-> "ValidateCategory", c |-> c, category |-> cat,
                errors |-> ValidateCategory(cat)]
    /\ UNCHANGED <<driver, walk, tasks, tasks_id_seq, tasks_user_id_seq, categories,
                   categories_id_seq, now, task, category, inflight, pc,
                   deleted, wins>>

NextValidate ==
    \/ \E t \in TasksToValidate : RunValidateTask(Caller, t)
    \/ \E cat \in CategoriesToValidate : RunValidateCategory(Caller, cat)

SpecValidate == Init /\ [][NextValidate]_vars

-----------------------------------------------------------------------------
(* The store in front of a backend that may take any time to answer.  A    *)
(* call begins, the backend answers it (it executes the statement and the  *)
(* method returns what it scanned) or seconds pass; a call that carries a  *)
(* context with a deadline returns the error of the context when the       *)
(* deadline passes first.                                                  *)

\* context.WithTimeout(context.Background(), 3*time.Second)
QueryTimeout == 3

\* the backend is watched for this many seconds after a call has begun
MaxWait == 4

\* ctx.Err() after the deadline, and what Scan returns for an empty result
ErrDeadlineExceeded == "context deadline exceeded"
ErrNoRows == "sql: no rows in result set"

\* the deadline of the context the method hands to the driver: Insert of
\* TaskModel and of CategoryModel call QueryRow, which takes no context
Deadline(op) ==
    IF op \in {"Insert", "CategoryInsert"} THEN Absent ELSE {QueryTimeout}

\* what the method returns for the error err of the driver
ReturnedError(op, err) ==
    CASE op \in {"Get", "CategoryGet"} /\ err = ErrNoRows -> ErrRecordNotFound
      [] op = "Update" /\ err = ErrNoRows -> ErrEditConflict
      [] OTHER -> err

\* "if id < 1 { return ErrRecordNotFound }" of Get and Delete of both
\* models: the method returns before it builds a context or a statement
ReturnsBeforeQuery(op, arg) ==
    /\ op \in {"Get", "Delete", "CategoryGet", "CategoryDelete"}
    /\ arg < 1

\* c begins the call op(arg): Get and Delete of an id below 1 return at
\* once, Get with a nil *Task; otherwise the method builds its context and hands the statement to
\* the driver.  queried tells whether the call has issued a statement.
Begin(c, op, arg) ==
    /\ pc[c] = "idle"
    /\ inflight[c] = NoCall
    /\ IF ReturnsBeforeQuery(op, arg)
       THEN /\ last' = [op |-> op, c |-> c, arg |-> arg, elapsed |-> 0,
                        answered |-> FALSE, queried |-> FALSE,
                        err |-> ErrRecordNotFound]
            /\ task' = IF op = "Get" THEN [task EXCEPT ![c] = NoTask] ELSE task
            /\ UNCHANGED inflight
       ELSE /\ inflight' = [inflight EXCEPT ![c] =
                               [op |-> op, arg |-> arg, elapsed |-> 0,
                                deadline |-> Deadline(op)]]
            /\ UNCHANGED <<task, last>>
    /\ UNCHANGED <<driver, walk, tasks, tasks_id_seq, tasks_user_id_seq, categories,
                   categories_id_seq, now, category, pc, deleted, wins>>

\* a second passes for every call in flight; the timer of a context fires
\* when its deadline is reached, so no call waits past its deadline
Second ==
    /\ \E c \in Clients : inflight[c] # NoCall
    /\ \A c \in Clients :
          inflight[c] # NoCall =>
              /\ inflight[c].elapsed < MaxWait
              /\ inflight[c].deadline # Absent =>
                    inflight[c].elapsed < Deref(inflight[c].deadline)
    /\ inflight' = [c \in Clients |->
                      IF inflight[c] = NoCall
                      THEN NoCall
                      ELSE [inflight[c] EXCEPT !.elapsed = @ + 1]]
    /\ UNCHANGED <<driver, walk, tasks, tasks_id_seq, tasks_user_id_seq, categories,
                   categories_id_seq, now, task, category, pc, deleted, wins, last>>

\* the state the statement of the call leaves and the error the method
\* returns, when the backend executes it now
Execute(c, call) ==
    LET same == [tasks |-> tasks, tasks_id_seq |-> tasks_id_seq,
                 tasks_user_id_seq |-> tasks_user_id_seq,
                 categories |-> categories,
                 categories_id_seq |-> categories_id_seq,
                 task |-> task[c], deleted |-> deleted, wins |-> wins, err |-> Nil]
    IN  CASE call.op = "Insert" ->
               LET r == TaskModelInsert(tasks, tasks_id_seq, tasks_user_id_seq, now, call.arg)
               IN  [same EXCEPT !.tasks = r.tasks, !.tasks_id_seq = r.id_seq,
                                !.tasks_user_id_seq = r.user_id_seq,
                                !.task = r.task, !.err = r.err]
          [] call.op = "Get" ->
               LET r == TaskModelGet(tasks, call.arg)
               IN  [same EXCEPT !.task = r.task, !.err = r.err]
          [] call.op = "Update" ->
               LET r == TaskModelUpdate(tasks, call.arg)
               IN  [same EXCEPT !.tasks = r.tasks, !.task = r.task,
                                !.wins = CountWin(wins, call.arg, r.err),
                                !.err = r.err]
          [] call.op = "Delete" ->
               LET r == TaskModelDelete(tasks, call.arg)
               IN  [same EXCEPT !.tasks = r.tasks,
                                !.deleted.tasks = IF r.err = Nil
                                                  THEN @ \cup {call.arg} ELSE @,
                                !.err = r.err]
          [] call.op = "GetAll" ->
               [same EXCEPT !.err = TaskModelGetAll(tasks, "", call.arg).err]
          [] call.op = "CategoryInsert" ->
               LET r == CategoryModelInsert(categories, categories_id_seq, now, call.arg)
               IN  [same EXCEPT !.categories = r.categories,
                                !.categories_id_seq = r.id_seq, !.err = r.err]
          [] call.op = "CategoryGet" ->
               [same EXCEPT !.err = CategoryModelGet(categories, call.arg).err]
          [] call.op = "CategoryUpdate" ->
               LET r == CategoryModelUpdate(categories, call.arg)
               IN  [same EXCEPT !.categories = r.categories, !.err = r.err]
          [] call.op = "CategoryDelete" ->
               LET r == CategoryModelDelete(categories, call.arg)
               IN  [same EXCEPT !.categories = r.categories,
                                !.deleted.categories = IF r.err = Nil
                                                       THEN @ \cup {call.arg} ELSE @,
                                !.err = r.err]
          [] call.op = "CategoryGetAll" ->
               [same EXCEPT !.err = CategoryModelGetAll(categories, call.arg).err]

\* the deadline of the context of c's call has passed: the method returns
\* the error of the context; Get returns a nil *Task with it, Update leaves
\* the caller's entity as it was.  The
\* statement has been with the backend since Begin and runs in a
\* transaction of its own, so an UPDATE or a DELETE is either abandoned or
\* has been executed and committed (executed) when the error is returned.
\* The error is the one the driver hands back for the cancelled statement:
\* the error of the context, or the backend's report of the cancellation
\* as the driver words it; the default arms pass either on unchanged.
Timeout(c) ==
    /\ inflight[c] # NoCall
    /\ inflight[c].deadline # Absent
    /\ inflight[c].elapsed = Deref(inflight[c].deadline)
    /\ \E executed \in IF inflight[c].op \in {"Update", "Delete", "CategoryUpdate",
                                              "CategoryDelete"}
                        THEN BOOLEAN ELSE {FALSE},
          err \in {ErrDeadlineExceeded,
                   "pq: canceling statement due to user request"} :
          LET r == Execute(c, inflight[c])
          IN  /\ tasks' = IF executed THEN r.tasks ELSE tasks
              /\ categories' = IF executed THEN r.categories ELSE categories
              /\ deleted' = IF executed THEN r.deleted ELSE deleted
              /\ wins' = IF executed THEN r.wins ELSE wins
              /\ last' = [op |-> inflight[c].op, c |-> c, arg |-> inflight[c].arg,
                          elapsed |-> inflight[c].elapsed, answered |-> FALSE,
                          queried |-> TRUE, executed |-> executed,
                          err |-> ReturnedError(inflight[c].op, err)]
    /\ task' = IF inflight[c].op = "Get" THEN [task EXCEPT ![c] = NoTask] ELSE task
    /\ inflight' = [inflight EXCEPT ![c] = NoCall]
    /\ UNCHANGED <<driver, walk, tasks_id_seq, tasks_user_id_seq, categories_id_seq,
                   now, category, pc>>

\* the backend answers c's call before its deadline has passed
Answer(c) ==
    /\ inflight[c] # NoCall
    /\ LET r == Execute(c, inflight[c])
       IN  /\ tasks' = r.tasks
           /\ tasks_id_seq' = r.tasks_id_seq
           /\ tasks_user_id_seq' = r.tasks_user_id_seq
           /\ categories' = r.categories
           /\ categories_id_seq' = r.categories_id_seq
           /\ task' = [task EXCEPT ![c] = r.task]
           /\ deleted' = r.deleted
           /\ wins' = r.wins
           /\ last' = [op |-> inflight[c].op, c |-> c, arg |-> inflight[c].arg,
                       elapsed |-> inflight[c].elapsed, answered |-> TRUE,
                       queried |-> TRUE, err |-> r.err]
    /\ inflight' = [inflight EXCEPT ![c] = NoCall]
    /\ UNCHANGED <<driver, walk, now, category, pc>>

NextTimeout ==
    \/ tasks_id_seq < MaxRaceRows /\ Begin(Caller, "Insert", OneTaskDraft)
    \/ \E id \in IdArgs : Begin(Caller, "Get", id)
    \/ /\ task[Caller] # NoTask
       /\ task[Caller].Version < MaxVersion
       /\ Begin(Caller, "Update", task[Caller])
    \/ \E id \in IdArgs : Begin(Caller, "Delete", id)
    \/ Begin(Caller, "GetAll", DefaultTaskFilters)
    \/ categories_id_seq < MaxRaceRows /\ Begin(Caller, "CategoryInsert", OneCategoryDraft)
    \/ \E id \in IdArgs : Begin(Caller, "CategoryGet", id)
    \/ \E u \in CategoryUpdates : Begin(Caller, "CategoryUpdate", u)
    \/ \E id \in IdArgs : Begin(Caller, "CategoryDelete", id)
    \/ Begin(Caller, "CategoryGetAll", DefaultCategoryFilters)
    \/ Second
    \/ Answer(Caller)
    \/ Timeout(Caller)

SpecTimeout == Init /\ [][NextTimeout]_vars

-----------------------------------------------------------------------------
(* Optimistic concurrency of TaskModel.Update.                             *)

\* C1: of the Update calls that carry the same id and the same starting
\* version, exactly one succeeds: no starting version of a row is ever won
\* twice; a call that succeeds leaves the stored version at its starting
\* version plus 1; every other call gets ErrEditConflict, and as long as the
\* row exists that is because one call with its starting version has won.
ExactlyOneUpdateWins ==
    /\ \A id \in DOMAIN wins : \A v \in DOMAIN wins[id] : wins[id][v] <= 1
    /\ last.op = "Update" =>
         LET id == last.arg.ID
             v == last.arg.Version
         IN  IF last.err = Nil
             THEN /\ id \in DOMAIN tasks
                  /\ tasks[id].version = v + 1
                  /\ wins[id][v] = 1
             ELSE /\ last.err = ErrEditConflict
                  /\ id \in DOMAIN tasks =>
                       /\ tasks[id].version > v
                       /\ wins[id][v] = 1

\* a call has just lost against the one call that won with the same starting
\* version: both carried the version that was stored when they started
UpdateRaceLost ==
    /\ last.op = "Update"
    /\ last.err = ErrEditConflict
    /\ last.arg.ID \in DOMAIN tasks
    /\ tasks[last.arg.ID].version = last.arg.Version + 1
    /\ wins[last.arg.ID][last.arg.Version] = 1

\* C3: an Update whose entity carries a version other than the stored one of
\* its id returns ErrEditConflict, leaves every row of the table as it was and
\* leaves the version of the caller's entity as it was.
StaleUpdateChangesNothing ==
    [][\A c \in Clients, input \in Patches :
         (/\ TaskUpdate(c, input)
          /\ task[c].ID \in DOMAIN tasks
          /\ tasks[task[c].ID].version # task[c].Version)
         => /\ last'.err = ErrEditConflict
            /\ tasks' = tasks
            /\ task'[c].Version = task[c].Version]_vars

\* a caller that held version v of a row now stored at a later version has
\* called Update
StaleUpdateDone ==
    /\ last.op = "Update"
    /\ last.arg.ID \in DOMAIN tasks
    /\ tasks[last.arg.ID].version > last.arg.Version
    /\ last.err = ErrEditConflict
    /\ last.arg.Title # tasks[last.arg.ID].title

\* the number of successful updates of the row id
RECURSIVE SumWins(_, _)
SumWins(id, v) == IF v = 0 THEN 0 ELSE wins[id][v] + SumWins(id, v - 1)

\* C4: a row's version is 1 right after Insert and is 1 plus the number of
\* successful updates of the row ever after; in a step it changes only by a
\* successful Update of that row, by exactly +1, and the new value is written
\* into the caller's entity.
VersionCountsUpdates ==
    /\ [](\A id \in DOMAIN tasks : tasks[id].version = 1 + SumWins(id, MaxVersion))
    /\ [][\A id \in DOMAIN tasks' :
            /\ id \notin DOMAIN tasks => tasks'[id].version = 1
            /\ (id \in DOMAIN tasks /\ tasks'[id].version # tasks[id].version) =>
                 /\ last'.op = "Update"
                 /\ last'.err = Nil
                 /\ last'.arg.ID = id
                 /\ last'.arg.Version = tasks[id].version
                 /\ tasks'[id].version = tasks[id].version + 1
                 /\ task'[last'.c].Version = tasks'[id].version]_vars

\* a row has been updated twice and its last update has just returned
UpdatedTwice ==
    /\ last.op = "Update"
    /\ last.err = Nil
    /\ tasks[last.arg.ID].version = 3
    /\ task[last.c].Version = 3

\* C5: Delete of an existing id succeeds and removes the row whatever version
\* is stored or held by another client; an Update of an id whose row has been
\* deleted returns ErrEditConflict and leaves the table as it is.
DeleteIgnoresVersion ==
    [][/\ \A c \in Clients, id \in IdArgs :
            (TaskDelete(c, id) /\ id \in DOMAIN tasks)
            => (last'.err = Nil /\ tasks' = Drop(tasks, id))
       /\ \A c \in Clients, input \in Patches :
            (TaskUpdate(c, input) /\ task[c].ID \in deleted.tasks)
            => (last'.err = ErrEditConflict /\ tasks' = tasks)]_vars

\* a client has called Update on a row that another call deleted after the
\* row had been updated
UpdateAfterDelete ==
    /\ last.op = "Update"
    /\ last.arg.ID \in deleted.tasks
    /\ last.arg.Version > 1
    /\ last.err = ErrEditConflict

\* C7: after Insert, Get of the new id returns the inserted entity in every
\* caller-supplied field (title, description, dueDate, priority, status,
\* category, userId), and Insert has written only id, createdAt and version
\* (= 1) into the passed entity.
InsertThenGetReturnsInserted ==
    last.op = "Insert" =>
        LET g == TaskModelGet(tasks, last.task.ID)
        IN  /\ g.err = Nil
            /\ g.task.Title = last.arg.Title
            /\ g.task.Description = last.arg.Description
            /\ g.task.DueDate = last.arg.DueDate
            /\ g.task.Priority = last.arg.Priority
            /\ g.task.Status = last.arg.Status
            /\ g.task.Category = last.arg.Category
            /\ g.task.UserID = last.arg.UserID
            /\ last.task = [last.arg EXCEPT !.ID = g.task.ID,
                                            !.CreatedAt = g.task.CreatedAt,
                                            !.Version = 1]

-----------------------------------------------------------------------------
(* Hard delete, in both stores.                                            *)

\* C6: Delete of an id without a row (never inserted, already deleted, or
\* below 1) returns ErrRecordNotFound and leaves the table as it is; Delete of
\* an id with a row removes it; no deleted id has a row again, and Get of a
\* deleted id returns ErrRecordNotFound; for tasks and for categories.
DeleteIsFinal ==
    /\ [](/\ deleted.tasks \cap DOMAIN tasks = {}
          /\ deleted.categories \cap DOMAIN categories = {})
    /\ [][\A id \in IdArgs :
            /\ (TaskDelete(Caller, id) /\ id \notin DOMAIN tasks)
               => (last'.err = ErrRecordNotFound /\ tasks' = tasks)
            /\ (TaskDelete(Caller, id) /\ id \in DOMAIN tasks)
               => (last'.err = Nil /\ id \notin DOMAIN tasks')
            /\ (TaskGet(Caller, id) /\ id \in deleted.tasks)
               => last'.err = ErrRecordNotFound
            /\ (CategoryDelete(Caller, id) /\ id \notin DOMAIN categories)
               => (last'.err = ErrRecordNotFound /\ categories' = categories)
            /\ (CategoryDelete(Caller, id) /\ id \in DOMAIN categories)
               => (last'.err = Nil /\ id \notin DOMAIN categories')
            /\ (CategoryGet(Caller, id) /\ id \in deleted.categories)
               => last'.err = ErrRecordNotFound]_vars

\* a task and a category have been deleted, later rows have been inserted in
\* both tables, and a deleted category has just been asked for
GetAfterDelete ==
    /\ deleted.tasks # {}
    /\ deleted.categories # {}
    /\ DOMAIN tasks # {}
    /\ DOMAIN categories # {}
    /\ last.op = "CategoryGet"
    /\ last.id \in deleted.categories
    /\ last.err = ErrRecordNotFound

-----------------------------------------------------------------------------
(* No lost update through updateTaskHandler.                               *)

\* C2: when updateTaskHandler answers StatusOK, the task it read is the row
\* that is stored at the moment of its write, and the row written is that
\* stored row with the fields of the body and the version plus 1; a request
\* with a valid change whose read is no longer the stored row (another writer
\* or a delete overtook it) answers editConflictResponse; and only a request
\* that answers StatusOK changes the table.
NoLostUpdate ==
    [][\A c \in Clients, body \in PatchBodies \cup {BadBody} :
         updateTaskHandlerUpdate(c, body) =>
           LET id == task[c].ID
               fresh == id \in DOMAIN tasks /\ ScanTask(tasks[id]) = task[c]
           IN  /\ last'.response = "StatusOK" =>
                    /\ fresh
                    /\ tasks' = Put(tasks, id, tasks'[id])
                    /\ ScanTask(tasks'[id])
                         = [ApplyPatch(ScanTask(tasks[id]), body)
                              EXCEPT !.Version = tasks[id].version + 1]
               /\ last'.response # "StatusOK" => tasks' = tasks
               /\ (/\ ~fresh
                   /\ body # BadBody
                   /\ Valid(ValidateTask(ApplyPatch(task[c], body))))
                  => last'.response = "editConflictResponse"]_vars

\* a PATCH whose read was overtaken by another PATCH of the same row has been
\* answered with editConflictResponse
PatchOvertaken ==
    /\ last.op = "updateTaskHandler"
    /\ last.response = "editConflictResponse"
    /\ last.task.ID \in DOMAIN tasks
    /\ tasks[last.task.ID].version = last.task.Version + 1
    /\ tasks[last.task.ID].title # last.task.Title

-----------------------------------------------------------------------------
(* TaskModel.GetAll.                                                       *)

Min(a, b) == IF a < b THEN a ELSE b
Max(a, b) == IF a > b THEN a ELSE b

\* the tasks of the table that pass the title filter of the last GetAll
Matching ==
    {ScanTask(tasks[id]) : id \in {i \in DOMAIN tasks : TitleMatches(tasks[i].title, last.title)}}

\* the value of the sort column of a task
SortValue(t, column) ==
    CASE column = "id" -> t.ID
      [] column = "title" -> Collate(t.Title)
      [] column = "priority" -> Collate(t.Priority)
      [] column = "category" -> Collate(t.Category)

\* x comes before y in the order of the last GetAll: by the sort column in
\* the sort direction, then by id ascending
Precedes(x, y) ==
    LET column == sortColumn(last.filters)
        kx == SortValue(x, column)
        ky == SortValue(y, column)
    IN  \/ sortDirection(last.filters) = "ASC" /\ kx < ky
        \/ sortDirection(last.filters) = "DESC" /\ kx > ky
        \/ kx = ky /\ x.ID < y.ID

\* the tasks returned are a window of the ordered matching tasks: the i-th one
\* is the matching task with exactly (page-1)*pageSize + i - 1 tasks before it
WindowOfMatching ==
    LET f == last.filters
        off == (f.Page - 1) * f.PageSize
    IN  /\ Len(last.tasks) = Min(f.PageSize, Max(0, Cardinality(Matching) - off))
        /\ \A i \in 1..Len(last.tasks) :
             /\ last.tasks[i] \in Matching
             /\ Cardinality({y \in Matching : Precedes(y, last.tasks[i])}) = off + i - 1

\* the least n with n * p >= r
CeilDiv(r, p) == CHOOSE n \in 0..r : n * p >= r /\ (n = 0 \/ (n - 1) * p < r)

\* C8: the metadata of GetAll has totalRecords = r, the number of rows that
\* match the filter, and lastPage = ceil(r / pageSize), for every page asked
\* for; the metadata is all zero only when r = 0.
MetadataCountsMatching ==
    last.op = "GetAll" =>
        LET r == Cardinality(Matching)
        IN  /\ last.metadata.TotalRecords = r
            /\ last.metadata.LastPage = CeilDiv(r, last.filters.PageSize)
            /\ last.metadata = ZeroMetadata => r = 0

\* C9: the rows and totalRecords of one GetAll come from one evaluation of
\* the query: the rows are a window of the matching rows, totalRecords is the
\* number of the matching rows, and the number of rows returned is
\* min(pageSize, max(0, totalRecords - offset)) and at most totalRecords.
RowsAndTotalFromOneSnapshot ==
    last.op = "GetAll" =>
        LET f == last.filters
            total == last.metadata.TotalRecords
        IN  /\ WindowOfMatching
            /\ total = Cardinality(Matching)
            /\ Len(last.tasks) = Min(f.PageSize, Max(0, total - (f.Page - 1) * f.PageSize))
            /\ Len(last.tasks) <= total

\* C10: GetAll returns, without an error, exactly the rows at the positions
\* offset+1 .. offset+limit of the rows that match the title filter, ordered
\* by the sort column in the sort direction and then by id ascending; the
\* list is empty when no row matches.
ListIsOrderedWindow ==
    last.op = "GetAll" =>
        /\ last.err = Nil
        /\ WindowOfMatching
        /\ Matching = {} => last.tasks = <<>>

\* a list sorted by title, descending, over two rows with the same title has
\* been returned: the lower id comes first
TieBrokenById ==
    /\ last.op = "GetAll"
    /\ last.filters.Sort = "-title"
    /\ Len(last.tasks) = 2
    /\ last.tasks[1].Title = last.tasks[2].Title
    /\ last.tasks[1].ID < last.tasks[2].ID

-----------------------------------------------------------------------------
(* The sort safelist of GET /v1/tasks.                                     *)

\* the columns the tokens of the safelist of the endpoint name
SafeColumns == {"id", "title", "priority", "category"}

\* the request asks for something ValidateFilters rejects
RejectedQuery(f) ==
    \/ f.Sort \notin TaskSortSafelist
    \/ f.Page < 1 \/ f.Page > MaxPage
    \/ f.PageSize < 1 \/ f.PageSize > MaxPageSize

\* C11: a list request whose sort value is not in the safelist of the
\* endpoint, or whose page or page size is out of range, ends in
\* failedValidationResponse and has made no store call; so every store call
\* a list request makes is a GetAll whose query text carries a column named
\* by a token of the safelist and a direction that is ASC or DESC.
SortSafelistEnforced ==
    last.op = "listTasksHandler" =>
        /\ RejectedQuery(last.filters) =>
              /\ last.response = "failedValidationResponse"
              /\ last.calls = <<>>
        /\ \A i \in 1..Len(last.calls) :
              /\ last.calls[i].op = "GetAll"
              /\ last.calls[i].query.column \in SafeColumns
              /\ \E s \in TaskSortSafelist :
                    /\ s = last.filters.Sort
                    /\ last.calls[i].query.column \in {s, TrimMinusPrefix(s)}
              /\ last.calls[i].query.direction \in {"ASC", "DESC"}

\* a request for a sort by a column the table has and the safelist has not
\* was rejected while the table had rows
UnsafeSortRejected ==
    /\ last.op = "listTasksHandler"
    /\ last.filters.Sort = "due_date"
    /\ last.filters.Page = 1
    /\ last.filters.PageSize = 20
    /\ last.calls = <<>>
    /\ last.response = "failedValidationResponse"
    /\ DOMAIN last.errors = {"sort"}
    /\ DOMAIN tasks # {}

\* C12: with task A (due 2024-01-01 00:00:00) and task B (due 2024-01-02
\* 00:00:00) inserted into an empty store, the list request with an empty
\* title filter, sort=-due_date, page=1 and page_size=20 answers with the
\* list [B, A] and totalRecords = 2.
ListByDueDateDescending ==
    ( /\ last.op = "listTasksHandler"
      /\ last.title = ""
      /\ last.filters.Sort = "-due_date"
      /\ last.filters.Page = 1
      /\ last.filters.PageSize = 20
      /\ DOMAIN tasks = {1, 2}
      /\ tasks[1].due_date = Jan1
      /\ tasks[2].due_date = Jan2 )
    => /\ last.response = "StatusOK"
       /\ last.tasks = <<ScanTask(tasks[2]), ScanTask(tasks[1])>>
       /\ last.metadata.TotalRecords = 2

-----------------------------------------------------------------------------
(* The per-call timeout.                                                   *)

\* C13: no store call waits for the backend longer than the 3 seconds of
\* its timeout, counted from the beginning of the call; a call that has
\* issued a statement the backend has not answered by then has returned an
\* error that is not ErrRecordNotFound, not ErrEditConflict and not a
\* success.
CallsBoundedByTimeout ==
    /\ \A c \in Clients :
          inflight[c] # NoCall => inflight[c].elapsed <= QueryTimeout
    /\ (last # NoCall /\ last.queried /\ ~last.answered) =>
          /\ last.elapsed = QueryTimeout
          /\ last.err \notin {Nil, ErrRecordNotFound, ErrEditConflict}

-----------------------------------------------------------------------------
(* Ids below 1.                                                            *)

\* C14: Get(id) and Delete(id) of the task store and of the category store
\* with id < 1 return ErrRecordNotFound, issue no query, and leave both
\* tables and their sequences as they were.
LowIdShortCircuits ==
    [][(/\ last'.op \in {"Get", "Delete", "CategoryGet", "CategoryDelete"}
        /\ last'.id < 1)
       => /\ last'.err = ErrRecordNotFound
          /\ ~last'.queried
          /\ tasks' = tasks
          /\ categories' = categories
          /\ tasks_id_seq' = tasks_id_seq
          /\ categories_id_seq' = categories_id_seq
          /\ deleted' = deleted]_vars

\* Delete(-5) has returned ErrRecordNotFound without a query while both
\* tables had rows
LowIdDeleteRefused ==
    /\ last.op = "Delete"
    /\ last.id = -5
    /\ last.err = ErrRecordNotFound
    /\ ~last.queried
    /\ DOMAIN tasks # {}
    /\ DOMAIN categories # {}

-----------------------------------------------------------------------------
(* Write-once columns.                                                     *)

\* C15: id and created_at of a row of tasks and of a row of categories are
\* write-once: a row is stored under its id, and as long as the row exists
\* no call (Insert, Get, Update, Delete, GetAll; also an Update whose entity
\* carries another CreatedAt) changes its id or its created_at.
IdAndCreatedAtWriteOnce ==
    /\ [](/\ \A id \in DOMAIN tasks : tasks[id].id = id
          /\ \A id \in DOMAIN categories : categories[id].id = id)
    /\ [][ /\ \A id \in DOMAIN tasks \cap DOMAIN tasks' :
               /\ tasks'[id].id = tasks[id].id
               /\ tasks'[id].created_at = tasks[id].created_at
           /\ \A id \in DOMAIN categories \cap DOMAIN categories' :
               /\ categories'[id].id = categories[id].id
               /\ categories'[id].created_at = categories[id].created_at
           /\ \A id \in DOMAIN tasks' \ DOMAIN tasks :
               id \notin deleted.tasks /\ tasks'[id].created_at = now
           /\ \A id \in DOMAIN categories' \ DOMAIN categories :
               id \notin deleted.categories /\ categories'[id].created_at = now
          ]_vars

\* an Update whose entity carried another CreatedAt than the row has
\* succeeded, and a category whose row has another created_at than the
\* entity of its last Update exists
UpdatedWithOtherCreatedAt ==
    /\ last.op = "Update"
    /\ last.err = Nil
    /\ last.arg.ID \in DOMAIN tasks
    /\ tasks[last.arg.ID].version > 1
    /\ last.arg.CreatedAt # tasks[last.arg.ID].created_at
    /\ \E id \in DOMAIN categories :
          /\ categories[id].name = "work"
          /\ categories[id].created_at # ZeroTime

-----------------------------------------------------------------------------
(* Category updates.                                                       *)

\* C16: every CategoryModel.Update of the concurrent update requests returns
\* success, never ErrEditConflict, and right after the backend has executed
\* the Update of a request the stored name and description of the category
\* are those of that Update: the last writer wins.
CategoryLastWriterWins ==
    (last.op = "updateCategoryHandler" /\ last.calls = <<"Get", "Update">>) =>
        /\ last.err = Nil
        /\ last.response = "StatusOK"
        /\ last.category.ID \in DOMAIN categories =>
              /\ categories[last.category.ID].name = last.category.Name
              /\ categories[last.category.ID].description = last.category.Description

\* two update requests of one category overlapped: the Update of the second
\* has replaced what the first wrote after the second had read the row
CategoryUpdateOverwritten ==
    /\ last.op = "updateCategoryHandler"
    /\ last.calls = <<"Get", "Update">>
    /\ last.response = "StatusOK"
    /\ last.overwritten # NoCategory
    /\ last.overwritten.Name # last.read.Name
    /\ last.category.Name = last.read.Name
    /\ categories[last.category.ID].name = last.read.Name

-----------------------------------------------------------------------------
(* Validation and the store.                                               *)

\* the rules of section 3 for a task and for a category
TaskIsValid(t) ==
    /\ t.Title # "" /\ Len(t.Title) <= 500
    /\ t.Description # "" /\ Len(t.Description) <= 1000
    /\ ~(t.DueDate.days = 0 /\ t.DueDate.secs = 0 /\ t.DueDate.nsec = 0)
    /\ \/ t.DueDate.days > DueDateAfter.days
       \/ t.DueDate.days = DueDateAfter.days /\ t.DueDate.secs > 0
       \/ t.DueDate.days = DueDateAfter.days /\ t.DueDate.nsec > 0
    /\ t.DueDate.days < DueDateBefore.days
    /\ t.Priority # ""
    /\ t.Status # ""
    /\ t.Category # ""

CategoryIsValid(c) ==
    /\ c.Name # "" /\ Len(c.Name) <= 100
    /\ c.Description # "" /\ Len(c.Description) <= 500

\* the requests of the create and update handlers that have been answered
CreateHandlers == {"createTaskHandler", "createCategoryHandler"}
UpdateHandlers == {"updateTaskHandler", "updateCategoryHandler"}

\* C17 as claimed: no request of a create or update handler has made a store
\* call before the validator has reported its entity valid (a request that
\* is between two of its statements has made none), and a request that ends
\* in failedValidationResponse has made no store call and has left the
\* store unchanged.
ValidationPrecedesStore ==
    /\ [](/\ \A c \in Clients : pc[c] # "idle" => CallsSoFar(c) = <<>>
          /\ (/\ last.op \in CreateHandlers \cup UpdateHandlers
              /\ last.response = "failedValidationResponse")
             => last.calls = <<>>)
    /\ [][(/\ last'.op \in CreateHandlers \cup UpdateHandlers
            /\ last'.response = "failedValidationResponse")
           => /\ tasks' = tasks
              /\ categories' = categories]_vars

\* C17 as amended: Insert and Update are called only with an entity the
\* validator has reported valid; a request that ends in
\* failedValidationResponse has made no store call except the Get with which
\* an update handler first reads the stored record, and has left the store
\* unchanged.
ValidationPrecedesWrites ==
    /\ [](last.op \in CreateHandlers \cup UpdateHandlers =>
            /\ last.response = "failedValidationResponse" =>
                  last.calls = IF last.op \in UpdateHandlers THEN <<"Get">> ELSE <<>>
            /\ (\E i \in 1..Len(last.calls) : last.calls[i] \in {"Insert", "Update"}) =>
                  IF last.op \in {"createTaskHandler", "updateTaskHandler"}
                  THEN TaskIsValid(last.entity)
                  ELSE CategoryIsValid(last.entity))
    /\ [][(/\ last'.op \in CreateHandlers \cup UpdateHandlers
            /\ last'.response = "failedValidationResponse")
           => /\ tasks' = tasks
              /\ categories' = categories
              /\ tasks_id_seq' = tasks_id_seq
              /\ categories_id_seq' = categories_id_seq]_vars

\* an update request whose patched task failed validation has ended: it had
\* read the task with Get, and the row is as it was
InvalidPatchRefused ==
    /\ last.op = "updateTaskHandler"
    /\ last.response = "failedValidationResponse"
    /\ last.calls = <<"Get">>
    /\ "title" \in DOMAIN last.errors
    /\ \E id \in DOMAIN tasks : tasks[id].title # "" /\ tasks[id].version = 1
    /\ DOMAIN categories # {}

-----------------------------------------------------------------------------
(* CustomTime on the wire.                                                 *)

\* C18: for every CustomTime with second precision, whatever the offset of
\* its location, UnmarshalJSON of what MarshalJSON wrote succeeds and yields
\* the same instant.
CustomTimeRoundTrip ==
    (last.op = "UnmarshalJSON" /\ last.from # NoCall) =>
        /\ last.err = Nil
        /\ last.ct.days = last.from.days
        /\ last.ct.secs = last.from.secs

-----------------------------------------------------------------------------
(* The validators.                                                         *)

\* C19: ValidateTask records no error exactly when the title is non-empty
\* and at most 500 bytes, the description non-empty and at most 1000 bytes,
\* the due date non-zero, strictly after 2023-10-07T00:00:00Z and strictly
\* before 2060-01-01T00:00:00Z, and priority, status and category non-empty.
ValidateTaskAcceptsExactlyValid ==
    last.op = "ValidateTask" =>
        (DOMAIN last.errors = {} <=> TaskIsValid(last.task))

\* a task that is valid but for a due date of exactly 2023-10-07T00:00:00Z
\* was rejected for its due date alone
LowerBoundRejected ==
    /\ last.op = "ValidateTask"
    /\ last.task.DueDate = Date(738799, 0)
    /\ Len(last.task.Title) = 500
    /\ Len(last.task.Description) = 1000
    /\ DOMAIN last.errors = {"due_date"}
    /\ last.errors["due_date"] = "must be after 2023-10-07"

\* the checks of the two validators in the order they are declared: whether
\* the check passes, its field and its message
TaskChecks(t) ==
    << <<t.Title # "", "title", "must be provided">>,
       <<Len(t.Title) <= 500, "title", "must not be more than 500 bytes long">>,
       <<t.Description # "", "description", "must be provided">>,
       <<Len(t.Description) <= 1000, "description", "must not be more than 1000 bytes long">>,
       <<<<t.DueDate.days, t.DueDate.secs, t.DueDate.nsec>> # <<0, 0, 0>>,
         "due_date", "must be provided">>,
       <<t.DueDate.days < DueDateBefore.days, "due_date", "must be before 2060">>,
       <<\/ t.DueDate.days > DueDateAfter.days
         \/ t.DueDate.days = DueDateAfter.days /\ t.DueDate.secs > 0
         \/ t.DueDate.days = DueDateAfter.days /\ t.DueDate.nsec > 0,
         "due_date", "must be after 2023-10-07">>,
       <<t.Priority # "", "priority", "must be provided">>,
       <<t.Status # "", "status", "must be provided">>,
       <<t.Category # "", "category", "must be provided">> >>

CategoryChecks(c) ==
    << <<c.Name # "", "name", "must be provided">>,
       <<Len(c.Name) <= 100, "name", "must not be more than 100 bytes long">>,
       <<c.Description # "", "description", "must be provided">>,
       <<Len(c.Description) <= 500, "description", "must not be more than 500 bytes long">> >>

\* the errors hold, for every field with a failing check and for no other
\* field, the message of the first failing check of that field
OneMessagePerFailedField(checks, errors) ==
    LET failing == {i \in 1..Len(checks) : ~checks[i][1]}
    IN  /\ DOMAIN errors = {checks[i][2] : i \in failing}
        /\ \A field \in DOMAIN errors :
              \E i \in failing :
                  /\ checks[i][2] = field
                  /\ \A j \in failing : checks[j][2] = field => i <= j
                  /\ errors[field] = checks[i][3]

\* C20: after ValidateTask or ValidateCategory every field with at least
\* one failing check has one message, that of its first failing check in
\* the order of declaration, and no other field has a message: a failure of
\* one field never suppresses the message of another field.
FirstFailurePerField ==
    /\ last.op = "ValidateTask" =>
          OneMessagePerFailedField(TaskChecks(last.task), last.errors)
    /\ last.op = "ValidateCategory" =>
          OneMessagePerFailedField(CategoryChecks(last.category), last.errors)

\* a task with an empty title, a zero due date and an empty category has
\* three messages; the one for the due date is "must be provided" although
\* the zero time also fails the check against 2023-10-07
ZeroDueDateOneMessage ==
    /\ last.op = "ValidateTask"
    /\ last.task.DueDate = ZeroTime
    /\ ~After(last.task.DueDate, DueDateAfter)
    /\ DOMAIN last.errors = {"title", "due_date", "category"}
    /\ last.errors["due_date"] = "must be provided"

-----------------------------------------------------------------------------
(* Listing categories.                                                     *)

\* C21: a list-categories request with valid filters calls GetAll of the
\* category store once, with the name filter and the filters of the query
\* string, and answers with the page and the metadata: the categories of the
\* page all match a non-empty name filter and totalRecords is the number of
\* matching categories; with an empty filter every category is counted.
CategoryListingLikeTaskListing ==
    (last.op = "GET /v1/categories" /\ Valid(ValidateFilters(NoErrors, last.filters))) =>
        LET matching == {id \in DOMAIN categories :
                            \/ last.name = ""
                            \/ categories[id].name = last.name}
        IN  /\ Len(last.calls) = 1
            /\ last.calls[1].op = "GetAll"
            /\ last.calls[1].name = last.name
            /\ Len(last.body) = 1
            /\ \A i \in 1..Len(last.body[1].categories) :
                  last.body[1].categories[i].ID \in matching
            /\ last.body[1].metadata =
                  calculateMetadata(Cardinality(matching), last.filters.Page,
                                    last.filters.PageSize)

-----------------------------------------------------------------------------
(* Ids and tokens.                                                         *)

\* C22: ids are never reused.  Every Insert assigns an id >= 1 that no row
\* has and no deleted row had, so no deleted id has a row again; and an
\* Update that carries the (id, version) of a row that has been deleted
\* since it was read fails and changes nothing, whatever rows were inserted
\* after the deletion.
IdsNeverReused ==
    /\ [](deleted.tasks \cap DOMAIN tasks = {})
    /\ [][\A c \in Clients :
            /\ TaskInsert(c, OneTaskDraft)
               => /\ last'.err = Nil
                  /\ last'.task.ID >= 1
                  /\ last'.task.ID \notin DOMAIN tasks \cup deleted.tasks
                  /\ DOMAIN tasks' = DOMAIN tasks \cup {last'.task.ID}
            /\ (TaskUpdate(c, EmptyPatch) /\ task[c].ID \in deleted.tasks)
               => /\ last'.err = ErrEditConflict
                  /\ tasks' = tasks
      ]_vars

\* a client has just called Update with the token of row 1, which was
\* deleted after the client read it; a row inserted after the deletion is
\* stored, and the Update was refused
StaleTokenAfterReinsert ==
    /\ last.op = "Update"
    /\ last.arg.ID = 1
    /\ last.arg.Version = 1
    /\ 1 \in deleted.tasks
    /\ 2 \in DOMAIN tasks
    /\ tasks[2].version = 1
    /\ last.err = ErrEditConflict

-----------------------------------------------------------------------------
(* Partial category updates.                                               *)

\* C23 as stated: right after the Update of an update request, a field the
\* body of the request omits has the stored value it had immediately before
\* that Update.
PatchLeavesOmittedFieldsAlone ==
    (/\ last.op = "updateCategoryHandler"
     /\ last.calls = <<"Get", "Update">>
     /\ last.overwritten # NoCategory) =>
        /\ last.body.Name = Absent =>
              categories[last.category.ID].name = last.overwritten.Name
        /\ last.body.Description = Absent =>
              categories[last.category.ID].description = last.overwritten.Description

\* C23: right after the Update of an update request, a field the body
\* supplies has the supplied value and a field the body omits has the value
\* the Get of the request returned; so an omitted field keeps the value it
\* had immediately before the Update when no other write changed the
\* category between the Get and the Update of the request.
PatchWritesBackWhatItRead ==
    (/\ last.op = "updateCategoryHandler"
     /\ last.calls = <<"Get", "Update">>
     /\ last.overwritten # NoCategory) =>
        LET stored == categories[last.category.ID]
        IN  /\ stored.name = IF last.body.Name = Absent
                             THEN last.read.Name
                             ELSE Deref(last.body.Name)
            /\ stored.description = IF last.body.Description = Absent
                                    THEN last.read.Description
                                    ELSE Deref(last.body.Description)
            /\ last.overwritten = last.read =>
                  /\ last.body.Name = Absent => stored.name = last.overwritten.Name
                  /\ last.body.Description = Absent =>
                        stored.description = last.overwritten.Description

\* two requests on one category overlapped, one setting the description and
\* one the name: the request that set only the name has written back the
\* description it had read, not the one stored since
OmittedFieldWrittenBack ==
    /\ last.op = "updateCategoryHandler"
    /\ last.calls = <<"Get", "Update">>
    /\ last.body.Name = {"work"}
    /\ last.body.Description = Absent
    /\ last.overwritten # NoCategory
    /\ last.overwritten.Description = "d"
    /\ last.read.Description = "e"
    /\ categories[last.category.ID].name = "work"
    /\ categories[last.category.ID].description = "e"

-----------------------------------------------------------------------------
(* Updates of missing categories.                                          *)

\* C24: CategoryModel.Update of an id without a row returns no error, does
\* not create a row and leaves the table as it is, whether the id never had
\* a row or its row was deleted between the Get and the Update of an update
\* request; the request is answered StatusOK with the category it sent, as
\* it is when the update took effect.
UpdateOfMissingCategorySucceeds ==
    /\ []((/\ last.op = "updateCategoryHandler"
           /\ last.calls = <<"Get", "Update">>
           /\ last.overwritten = NoCategory) =>
              /\ last.err = Nil
              /\ last.response = "StatusOK"
              /\ last.category.ID \notin DOMAIN categories)
    /\ [][\A c \in Clients :
            /\ \A u \in CategoryUpdates :
                 (CategoryUpdate(c, u) /\ u.ID \notin DOMAIN categories)
                    => (last'.err = Nil /\ categories' = categories)
            /\ \A body \in CategoryPatchBodies :
                 (/\ updateCategoryHandlerUpdate(c, body)
                  /\ category[c].ID \notin DOMAIN categories
                  /\ Valid(ValidateCategory(ApplyCategoryPatch(category[c], body))))
                    => /\ categories' = categories
                       /\ last'.response = "StatusOK"
                       /\ last'.category = ApplyCategoryPatch(category[c], body)
      ]_vars

\* an update request read category 1, a delete request removed it, and the
\* Update of the update request was still answered StatusOK
UpdateAfterDeleteAnsweredOK ==
    /\ last.op = "updateCategoryHandler"
    /\ last.calls = <<"Get", "Update">>
    /\ last.overwritten = NoCategory
    /\ last.category.ID \in deleted.categories
    /\ last.body.Name = {"work"}
    /\ last.response = "StatusOK"
    /\ categories = EmptyTable

-----------------------------------------------------------------------------
(* Pages.                                                                  *)

\* the lists of a sequence of pages, one after the other
RECURSIVE Concatenation(_)
Concatenation(pages) ==
    IF pages = <<>> THEN <<>> ELSE Head(pages) \o Concatenation(Tail(pages))

\* every category of the table: CategoryModel.GetAll has no filter
AllCategories == {ScanCategory(categories[id]) : id \in DOMAIN categories}

\* x comes before y in the order of the last walk through the categories
CategoryPrecedes(x, y) ==
    LET kx == IF sortColumn(last.filters) = "id" THEN x.ID ELSE Collate(x.Name)
        ky == IF sortColumn(last.filters) = "id" THEN y.ID ELSE Collate(y.Name)
    IN  \/ sortDirection(last.filters) = "ASC" /\ kx < ky
        \/ sortDirection(last.filters) = "DESC" /\ kx > ky
        \/ kx = ky /\ x.ID < y.ID

\* C25: with the store contents, the filter, the sort and the page size
\* fixed, the lists GetAll returns for the pages 1 .. ceil(r / pageSize),
\* one call after the other, hold every matching row exactly once, in the
\* order of the sort key and then of id ascending: no row is skipped and
\* none is repeated; for tasks and for categories.
PagesPartitionTheResult ==
    /\ (last.op = "GetAllPages" /\ last.fixed) =>
          LET all == Concatenation(last.pages)
          IN  /\ Len(last.pages) = CeilDiv(Cardinality(Matching), last.filters.PageSize)
              /\ Len(all) = Cardinality(Matching)
              /\ {all[i] : i \in 1..Len(all)} = Matching
              /\ \A i, j \in 1..Len(all) : i < j => Precedes(all[i], all[j])
    /\ (last.op = "CategoryGetAllPages" /\ last.fixed) =>
          LET all == Concatenation(last.pages)
          IN  /\ Len(last.pages) = CeilDiv(Cardinality(AllCategories), last.filters.PageSize)
              /\ Len(all) = Cardinality(AllCategories)
              /\ {all[i] : i \in 1..Len(all)} = AllCategories
              /\ \A i, j \in 1..Len(all) : i < j => CategoryPrecedes(all[i], all[j])

\* two tasks with the same title have been listed by title, descending, one
\* per page and with no write between the two calls: page 1 holds the lower
\* id and page 2 the higher one
TiedRowsOnTwoPages ==
    /\ last.op = "GetAllPages"
    /\ last.fixed
    /\ last.filters.Sort = "-title"
    /\ last.filters.PageSize = 1
    /\ Len(last.pages) = 2
    /\ Len(last.pages[1]) = 1
    /\ Len(last.pages[2]) = 1
    /\ last.pages[1][1].Title = last.pages[2][1].Title
    /\ last.pages[1][1].ID < last.pages[2][1].ID

-----------------------------------------------------------------------------
(* The rows of the tables.                                                 *)

\* C26: in every state that create, update and delete requests of the task
\* and category handlers lead to, in any interleaving, every row of tasks
\* passes all checks of ValidateTask and every row of categories passes all
\* checks of ValidateCategory.
EveryStoredRowIsValid ==
    /\ \A id \in DOMAIN tasks : TaskIsValid(ScanTask(tasks[id]))
    /\ \A id \in DOMAIN categories : CategoryIsValid(ScanCategory(categories[id]))
====
